---------------------------- MODULE Spec2Model ----------------------------
(***************************************************************************)
(* A model of the voice-agent response pipeline (src/app.py, src/tts.py,   *)
(* src/utils.py, src/rag.py).                                              *)
(*                                                                         *)
(*   Spec      the token store and the audio delivery gateway: the         *)
(*             process-wide maps of src/tts.py and concurrent tts_stream   *)
(*             requests of src/app.py, one step per lock acquisition.      *)
(*                                                                         *)
(* Text is a sequence of characters over a small alphabet; an audio        *)
(* payload is the sequence of chunks the engine produced.                  *)
(***************************************************************************)
EXTENDS Naturals, Sequences, FiniteSets, TLC

(***************************************************************************)
(* Bounds of the model.                                                    *)
(***************************************************************************)
\* tokens uuid4 can hand out in one run
NumTokens == 2
\* tts_stream requests in one run
NumRequests == 3
\* tts_stream requests in one run of the gateway with fair request threads
NumFetchers == 2
\* audio chunks the hosted engine produces for one text
NChunks == 1
\* polls of _wait_for_ios_cache before its budget is spent (15.0 / 0.2 in the source)
WaitPolls == 2
\* the clock stops advancing once it reaches this many ticks
MaxTicks == 1

(***************************************************************************)
(* Program constants.                                                      *)
(***************************************************************************)
\* src/tts.py:21
ios_cache_max_age == 120

Tokens == 1..NumTokens
Requests == 1..NumRequests

\* the texts generate_tts is called with in this specification (never empty:
\* every caller in src/app.py passes a non-blank reply or sentence)
Texts == {<<"a", ".">>, <<"b", ".">>}

\* the chunks the hosted engine produces for a text, in order
EngineAudio(text) == [i \in 1..NChunks |-> <<text, i>>]

\* what get_full_audio_bytes can return for a text: the chunks the consuming
\* loop of stream_tts_chunks yielded, a prefix of the engine's chunks (all of
\* them when the engine completes in time; fewer, or none, when the engine
\* raises or the deadline passes first)
FullAudioResults(text) == {SubSeq(EngineAudio(text), 1, k) : k \in 0..NChunks}

VARIABLES
    pending,          \* _pending: token -> text
    ios_cache,        \* _ios_cache: token -> audio bytes
    ios_cache_times,  \* _ios_cache_times: token -> time cached
    ios_generating,   \* _ios_generating: set of tokens
    now,              \* time.time(), in seconds
    req,              \* the tts_stream requests: request -> its local state
    created,          \* history: the (token, text) pairs generate_tts inserted, in order
    synth_calls,      \* history: token -> number of synthesis calls started for it
    synth_failed,     \* history: tokens whose buffered fetch returned 500
    call_records,     \* logs/call_records.json: session -> its record
    lead_log,         \* logs/lead_logs.txt: the lead lines, in order
    turn,             \* the query / query_stream requests: turn -> its local state
    ga,               \* one generate_answer call: its local state
    rc,               \* the index of rag.py and one retrieve_context call
    syn,              \* one synthesis of tts.py, its consumers and a waiting fetch
    wk                \* the workers inside a call-record function of utils.py

vars == <<pending, ios_cache, ios_cache_times, ios_generating, now, req,
          created, synth_calls, synth_failed, call_records, lead_log, turn, ga, rc,
          syn, wk>>

\* the state of the gateway alone, of the turns alone, of rag.py and of one
\* synthesis alone
gateway_only == <<ios_cache, ios_cache_times, ios_generating, now, req,
                  synth_calls, synth_failed>>
turn_only == <<call_records, lead_log, turn>>
ga_only == <<ga, rc, syn, wk>>

Range(f) == {f[x] : x \in DOMAIN f}

CreatedTokens == {created[i].token : i \in 1..Len(created)}

\* the text token t was created with
CreatedText(t) == created[CHOOSE i \in 1..Len(created) : created[i].token = t].text

-----------------------------------------------------------------------------
(***************************************************************************)
(* src/tts.py: the token store.                                            *)
(***************************************************************************)

\* a generator that hands out the same value again
uuid4_repeating(used) == {1}

\* uuid.uuid4(): a value never handed out before (values are opaque, so they
\* are named by the order in which they are drawn)
uuid4(used) == {Cardinality(used) + 1}

\* generate_tts, lines 32-34: _pending[token] = text
pending_insert(p, t, text) == [x \in DOMAIN p \cup {t} |-> IF x = t THEN text ELSE p[x]]

\* a pop that reads the text and leaves the entry in place
pending_get_only(p, t) == p

\* get_and_clear: the map _pending.pop(token, None) leaves behind
pending_pop(p, t) == [x \in DOMAIN p \ {t} |-> p[x]]

\* a lookup that ignores the token and returns some cached entry
get_any_cached(cache, t) ==
    IF DOMAIN cache = {} THEN <<>> ELSE cache[CHOOSE k \in DOMAIN cache : TRUE]

\* _get_ios_cached: the cached bytes, <<>> for None
get_ios_cached(cache, t) == IF t \in DOMAIN cache THEN cache[t] ELSE <<>>

\* _set_ios_cached, lines 87-91: the keys evicted as expired at time clock
expired_keys(times, clock) ==
    {k \in DOMAIN times : clock - times[k] > ios_cache_max_age}

\* _set_ios_cached, lines 88-93: a map after the sweep and the insertion of t
cache_store(m, times, clock, t, v) ==
    LET keep == (DOMAIN m \ expired_keys(times, clock)) \cup {t}
    IN  [k \in keep |-> IF k = t THEN v ELSE m[k]]

\* app.py _is_ios is abstracted: a request is from a buffering (iOS) client or not

NewReq == [pc |-> "idle", token |-> 1, ios |-> FALSE, called |-> FALSE, popped |-> FALSE,
           text |-> <<>>, audio |-> <<>>, elapsed |-> 0, status |-> 0,
           body |-> <<>>, saw_pending |-> FALSE, saw_failed |-> FALSE,
           saw_expired |-> FALSE, early |-> FALSE, waited |-> FALSE,
           synth |-> "none"]

\* a response that has the status and leaves the payload out
respond_without_body(r, st, b) ==
    req' = [req EXCEPT ![r].pc = "done", ![r].status = st, ![r].body = <<>>]

\* a request returns: its status and body
Respond(r, st, b) == req' = [req EXCEPT ![r].pc = "done", ![r].status = st, ![r].body = b]

\* generate_tts(text, session_id), called by a turn
GenerateTts(text) ==
    /\ Len(created) < NumTokens
    /\ \E t \in uuid4(CreatedTokens) :
          /\ pending' = pending_insert(pending, t, text)
          /\ created' = Append(created, [token |-> t, text |-> text, by |-> 0])
    /\ UNCHANGED <<ios_cache, ios_cache_times, ios_generating, now, req,
                   synth_calls, synth_failed>>
    /\ UNCHANGED <<turn_only, ga_only>>

\* time passes: one time-to-live and a second
Tick ==
    /\ now < MaxTicks * (ios_cache_max_age + 1)
    /\ now' = now + ios_cache_max_age + 1
    /\ UNCHANGED <<pending, ios_cache, ios_cache_times, ios_generating, req,
                   created, synth_calls, synth_failed>>
    /\ UNCHANGED <<turn_only, ga_only>>

\* tts_stream(token), lines 70-71: a request arrives (request ids are handed
\* out in order of arrival)
Arrive(r, t, ios) ==
    /\ req[r].pc = "idle"
    /\ \A q \in Requests : q < r => req[q].pc # "idle"
    /\ req' = [req EXCEPT ![r] =
                 [NewReq EXCEPT
                    !.pc = IF ios THEN "cache_lookup" ELSE "get_and_clear",
                    !.token = t, !.ios = ios,
                    !.saw_pending = t \in DOMAIN pending,
                    !.saw_failed = t \in synth_failed,
                    !.saw_expired = /\ t \in DOMAIN ios_cache_times
                                    /\ now - ios_cache_times[t] > ios_cache_max_age,
                    !.early = \/ t \in DOMAIN pending
                              \/ \E q \in Requests :
                                    /\ req[q].token = t /\ req[q].ios
                                    /\ req[q].pc \in {"mark", "start", "synth"}]]
    /\ UNCHANGED <<pending, ios_cache, ios_cache_times, ios_generating, now,
                   created, synth_calls, synth_failed>>
    /\ UNCHANGED <<turn_only, ga_only>>

\* lines 74-85: the cache lookup of a buffering client
CacheLookup(r) ==
    /\ req[r].pc = "cache_lookup"
    /\ LET cached == get_ios_cached(ios_cache, req[r].token)
       IN  IF cached # <<>>
           THEN Respond(r, 200, cached)
           ELSE req' = [req EXCEPT ![r].pc = "get_and_clear"]
    /\ UNCHANGED <<pending, ios_cache, ios_cache_times, ios_generating, now,
                   created, synth_calls, synth_failed>>
    /\ UNCHANGED <<turn_only, ga_only>>

\* lines 87-88, 102-103: text = get_and_clear(token)
GetAndClear(r) ==
    /\ req[r].pc = "get_and_clear"
    /\ LET t == req[r].token
           found == t \in DOMAIN pending
           text == IF found THEN pending[t] ELSE <<>>
       IN  /\ pending' = pending_pop(pending, t)
           /\ IF text = <<>>
              THEN IF req[r].ios
                   THEN req' = [req EXCEPT ![r].pc = "check_generating",
                                           ![r].called = TRUE, ![r].popped = found]
                   ELSE req' = [req EXCEPT ![r].pc = "done", ![r].status = 404,
                                           ![r].called = TRUE, ![r].popped = found]
              ELSE req' = [req EXCEPT ![r].pc = IF req[r].ios THEN "mark" ELSE "stream",
                                      ![r].called = TRUE, ![r].popped = found,
                                      ![r].text = text]
    /\ UNCHANGED <<ios_cache, ios_cache_times, ios_generating, now,
                   created, synth_calls, synth_failed>>
    /\ UNCHANGED <<turn_only, ga_only>>

\* line 90: _is_ios_generating(token)
CheckGenerating(r) ==
    /\ req[r].pc = "check_generating"
    /\ IF req[r].token \in ios_generating
       THEN req' = [req EXCEPT ![r].pc = "wait", ![r].elapsed = 0,
                               ![r].waited = TRUE]
       ELSE Respond(r, 404, <<>>)
    /\ UNCHANGED <<pending, ios_cache, ios_cache_times, ios_generating, now,
                   created, synth_calls, synth_failed>>
    /\ UNCHANGED <<turn_only, ga_only>>

\* lines 91-103 and _wait_for_ios_cache: one poll of the cache
WaitPoll(r) ==
    /\ req[r].pc = "wait"
    /\ IF req[r].elapsed < WaitPolls
       THEN LET cached == get_ios_cached(ios_cache, req[r].token)
            IN  IF cached # <<>>
                THEN Respond(r, 200, cached)
                ELSE req' = [req EXCEPT ![r].elapsed = @ + 1]
       ELSE Respond(r, 404, <<>>)
    /\ UNCHANGED <<pending, ios_cache, ios_cache_times, ios_generating, now,
                   created, synth_calls, synth_failed>>
    /\ UNCHANGED <<turn_only, ga_only>>

\* line 108: _mark_ios_generating(token)
MarkGenerating(r) ==
    /\ req[r].pc = "mark"
    /\ ios_generating' = ios_generating \cup {req[r].token}
    /\ req' = [req EXCEPT ![r].pc = "start"]
    /\ UNCHANGED <<pending, ios_cache, ios_cache_times, now, created,
                   synth_calls, synth_failed>>
    /\ UNCHANGED <<turn_only, ga_only>>

\* line 111 and tts.py:124-125: get_full_audio_bytes(text) is called and
\* stream_tts_chunks starts the engine thread
SynthStart(r) ==
    /\ req[r].pc = "start"
    /\ synth_calls' = [synth_calls EXCEPT ![req[r].token] = @ + 1]
    /\ req' = [req EXCEPT ![r].pc = "synth", ![r].synth = "started"]
    /\ UNCHANGED <<pending, ios_cache, ios_cache_times, ios_generating, now,
                   created, synth_failed>>
    /\ UNCHANGED <<turn_only, ga_only>>

\* line 111 and tts.py:125: Thread.start raises (RuntimeError: can't start
\* new thread) and get_full_audio_bytes with it, no engine thread started
SynthStartRaise(r) ==
    /\ req[r].pc = "start"
    /\ req' = [req EXCEPT ![r].pc = "clear", ![r].synth = "raised"]
    /\ UNCHANGED <<pending, ios_cache, ios_cache_times, ios_generating, now,
                   created, synth_calls, synth_failed>>
    /\ UNCHANGED <<turn_only, ga_only>>

\* lines 111-112: get_full_audio_bytes(text) returns
SynthReturn(r) ==
    /\ req[r].pc = "synth"
    /\ \E audio \in FullAudioResults(req[r].text) :
          req' = [req EXCEPT ![r].audio = audio,
                             ![r].pc = IF audio = <<>> THEN "clear" ELSE "set_discard"]
    /\ UNCHANGED <<pending, ios_cache, ios_cache_times, ios_generating, now,
                   created, synth_calls, synth_failed>>
    /\ UNCHANGED <<turn_only, ga_only>>

\* lines 125-126: get_full_audio_bytes(text) raises with the engine running
SynthRaise(r) ==
    /\ req[r].pc = "synth"
    /\ req' = [req EXCEPT ![r].pc = "clear"]
    /\ UNCHANGED <<pending, ios_cache, ios_cache_times, ios_generating, now,
                   created, synth_calls, synth_failed>>
    /\ UNCHANGED <<turn_only, ga_only>>

\* the failure path with the generating mark left in place
clear_nothing(g, t) == g

\* _clear_ios_generating: _ios_generating.discard(token)
generating_discard(g, t) == g \ {t}

\* lines 113-114 and 127-128: _clear_ios_generating(token); return 500
ClearGenerating(r) ==
    /\ req[r].pc = "clear"
    /\ ios_generating' = generating_discard(ios_generating, req[r].token)
    /\ synth_failed' = synth_failed \cup {req[r].token}
    /\ Respond(r, 500, <<>>)
    /\ UNCHANGED <<pending, ios_cache, ios_cache_times, now, created, synth_calls>>
    /\ UNCHANGED <<turn_only, ga_only>>

\* _set_ios_cached, lines 83-84: the generating mark is dropped
SetCachedDiscard(r) ==
    /\ req[r].pc = "set_discard"
    /\ ios_generating' = generating_discard(ios_generating, req[r].token)
    /\ req' = [req EXCEPT ![r].pc = "set_store"]
    /\ UNCHANGED <<pending, ios_cache, ios_cache_times, now, created,
                   synth_calls, synth_failed>>
    /\ UNCHANGED <<turn_only, ga_only>>

\* _set_ios_cached, lines 85-93: the sweep and the store under the cache
\* lock; the lock is released and the call returns to tts_stream
SetCachedStore(r) ==
    /\ req[r].pc = "set_store"
    /\ ios_cache' = cache_store(ios_cache, ios_cache_times, now,
                                req[r].token, req[r].audio)
    /\ ios_cache_times' = cache_store(ios_cache_times, ios_cache_times, now,
                                      req[r].token, now)
    /\ req' = [req EXCEPT ![r].pc = "reply"]
    /\ UNCHANGED <<pending, ios_generating, now, created, synth_calls, synth_failed>>
    /\ UNCHANGED <<turn_only, ga_only>>

\* lines 116-124: return Response(audio_bytes, ...), after the store
BufferedReply(r) ==
    /\ req[r].pc = "reply"
    /\ Respond(r, 200, req[r].audio)
    /\ UNCHANGED <<pending, ios_cache, ios_cache_times, ios_generating, now,
                   created, synth_calls, synth_failed>>
    /\ UNCHANGED <<turn_only, ga_only>>

\* lines 132-147: the chunked response is returned with its status before
\* its generator has run
StreamChunks(r) ==
    /\ req[r].pc = "stream"
    /\ req' = [req EXCEPT ![r].pc = "body", ![r].status = 200]
    /\ UNCHANGED <<pending, ios_cache, ios_cache_times, ios_generating, now,
                   created, synth_calls, synth_failed>>
    /\ UNCHANGED <<turn_only, ga_only>>

\* lines 132-134 and tts.py:124-125: the server resumes the generator for the
\* first time; stream_tts_chunks starts the engine thread and goes on to its
\* loop, where it sleeps while the engine has no chunk
StreamResume(r) ==
    /\ req[r].pc = "body"
    /\ synth_calls' = [synth_calls EXCEPT ![req[r].token] = @ + 1]
    /\ req' = [req EXCEPT ![r].pc = "chunks", ![r].synth = "started"]
    /\ UNCHANGED <<pending, ios_cache, ios_cache_times, ios_generating, now,
                   created, synth_failed>>
    /\ UNCHANGED <<turn_only, ga_only>>

\* lines 133-137 and tts.py:125: Thread.start raises at the first resumption;
\* generate() logs the exception and the body ends empty
StreamResumeRaise(r) ==
    /\ req[r].pc = "body"
    /\ req' = [req EXCEPT ![r].pc = "done", ![r].synth = "raised"]
    /\ UNCHANGED <<pending, ios_cache, ios_cache_times, ios_generating, now,
                   created, synth_calls, synth_failed>>
    /\ UNCHANGED <<turn_only, ga_only>>

\* lines 134-135 and tts.py:130-136: the generator yields the next chunk of
\* stream_tts_chunks
StreamNext(r) ==
    /\ req[r].pc = "chunks"
    /\ Len(req[r].body) < NChunks
    /\ req' = [req EXCEPT ![r].body = Append(@, EngineAudio(req[r].text)[Len(@) + 1])]
    /\ UNCHANGED <<pending, ios_cache, ios_cache_times, ios_generating, now,
                   created, synth_calls, synth_failed>>
    /\ UNCHANGED <<turn_only, ga_only>>

\* tts.py:129-141: the generator ends, after the last chunk, after an error
\* of the engine or at the deadline
StreamEnd(r) ==
    /\ req[r].pc = "chunks"
    /\ req' = [req EXCEPT ![r].pc = "done"]
    /\ UNCHANGED <<pending, ios_cache, ios_cache_times, ios_generating, now,
                   created, synth_calls, synth_failed>>
    /\ UNCHANGED <<turn_only, ga_only>>


-----------------------------------------------------------------------------
(***************************************************************************)
(* src/app.py, src/utils.py: the turns (query, query_stream), start_call,  *)
(* the call records and the lead log.  Text is a sequence of characters.   *)
(***************************************************************************)

\* turns (query / query_stream requests) in one run
NumTurns == 2
\* sessions start_call opens in one run
NumSessions == 2
\* sessions start_call opens in one run of the turns with fair handlers
NumFairSessions == 2

\* app.py:200, 294: a transcript shorter than this is not processed
MinTranscriptLen == 3
\* utils.py:89: the digits that follow "03" in a phone number
PhoneDigits == 9

Turns == 1..NumTurns
\* a session id no start_call ever returned
StrangerSession == NumSessions + 1
\* a request without a session id
NoSession == StrangerSession + 1

\* app.py:211, 304: the fixed admissions-contact reply
REPLY_PHONE ==
    <<"T","h","a","n","k"," ","y","o","u","."," ","O","u","r"," ","a","d","m","i","s","s","i","o",
      "n","s"," ","o","f","f","i","c","e"," ","w","i","l","l"," ","c","o","n","t","a","c","t"," ",
      "y","o","u"," ","s","o","o","n",".">>

\* app.py:202
ERR_HEAR_QUERY ==
    <<"C","o","u","l","d"," ","n","o","t"," ","h","e","a","r"," ","y","o","u"," ","c","l","e","a",
      "r","l","y","."," ","P","l","e","a","s","e"," ","s","p","e","a","k"," ","a","g","a","i","n",
      ".">>

\* app.py:295
ERR_HEAR_STREAM ==
    <<"C","o","u","l","d"," ","n","o","t"," ","h","e","a","r"," ","y","o","u"," ","c","l","e","a",
      "r","l","y","."," ","P","l","e","a","s","e"," ","t","r","y"," ","a","g","a","i","n",".">>

\* app.py:325
ERR_SERVER ==
    <<"S","e","r","v","e","r"," ","e","r","r","o","r">>

\* app.py:228
ERR_FAILED ==
    <<"F","a","i","l","e","d"," ","t","o"," ","p","r","o","c","e","s","s"," ","q","u","e","r","y">>

\* app.py:168
ERR_START ==
    <<"F","a","i","l","e","d"," ","t","o"," ","s","t","a","r","t"," ","c","a","l","l">>

\* app.py:178, 279
ERR_INVALID ==
    <<"I","n","v","a","l","i","d"," ","r","e","q","u","e","s","t">>

\* app.py:157
GREETING ==
    <<"H","e","l","l","o",","," ","t","h","i","s"," ","i","s"," ","I","n","s","t","i","t","u","t",
      "e"," ","o","f"," ","S","p","a","c","e"," ","T","e","c","h","n","o","l","o","g","y","."," ",
      "H","o","w"," ","c","a","n"," ","I"," ","h","e","l","p"," ","y","o","u"," ","t","o","d","a",
      "y","?">>

\* rag.py:391
REPLY_WELCOME ==
    <<"Y","o","u","'","r","e"," ","w","e","l","c","o","m","e",".">>

\* rag.py:393
REPLY_THANK_YOU ==
    <<"T","h","a","n","k"," ","y","o","u",".">>

\* rag.py:414-417
REPLY_NO_INFO ==
    <<"I"," ","d","o","n","'","t"," ","h","a","v","e"," ","t","h","a","t"," ","i","n","f","o","r",
      "m","a","t","i","o","n","."," ","P","l","e","a","s","e"," ","p","r","o","v","i","d","e"," ",
      "y","o","u","r"," ","p","h","o","n","e"," ","n","u","m","b","e","r"," ","a","n","d"," ","w",
      "e"," ","w","i","l","l"," ","c","o","n","t","a","c","t"," ","y","o","u",".">>

\* rag.py:477-480
REPLY_TECHNICAL ==
    <<"I","'","m"," ","s","o","r","r","y",","," ","I","'","m"," ","h","a","v","i","n","g"," ","t",
      "e","c","h","n","i","c","a","l"," ","d","i","f","f","i","c","u","l","t","i","e","s","."," ",
      "P","l","e","a","s","e"," ","p","r","o","v","i","d","e"," ","y","o","u","r"," ","p","h","o",
      "n","e"," ","n","u","m","b","e","r"," ","a","n","d"," ","w","e"," ","w","i","l","l"," ","c",
      "a","l","l"," ","y","o","u"," ","b","a","c","k",".">>

\* the transcripts transcribe_audio returns in this model (stripped, or empty on failure)
Transcripts ==
    {<<>>,
     <<"h","i">>,
     <<"b","u","s">>,
     <<"m","y"," ","n","u","m","b","e","r"," ","i","s"," ","0","3","0","0","1","2","3","4","5","6",
      "7">>}

\* the stripped, non-blank replies the language model gives in this model
LLM_REPLIES ==
    {<<"I","t"," ","i","s"," ","1"," ","l","a","k","h",".">>,
     <<"Y","e","s","."," ","I","t"," ","i","s"," ","o","p","e","n","!">>,
     <<"Y","e","s","."," "," ","N","o","?","\n","O","k",".">>,
     <<"S","e","e"," ","i","s","t",".","e","d","u",".","p","k"," ","n","o","w">>,
     <<"S","h","a","r","e"," ","y","o","u","r"," ","p","h","o","n","e"," ","n","u","m","b","e","r",
      ".">>}

\* rag.py:458-461: the phrases that mark a reply as escalated
DEFLECTION_PHRASES ==
    {<<"t","e","c","h","n","i","c","a","l"," ","i","s","s","u","e">>,
     <<"c","a","n","n","o","t"," ","f","i","n","d">>,
     <<"u","n","a","b","l","e">>,
     <<"p","h","o","n","e"," ","n","u","m","b","e","r">>,
     <<"p","r","o","v","i","d","e"," ","y","o","u","r"," ","p","h","o","n","e">>,
     <<"c","o","n","t","a","c","t"," ","y","o","u">>}

\* str.lower() on one character
UpperLower ==
    {<<"A","a">>, <<"B","b">>, <<"C","c">>, <<"D","d">>, <<"E","e">>, <<"F","f">>, <<"G","g">>,
    <<"H","h">>, <<"I","i">>, <<"J","j">>, <<"K","k">>, <<"L","l">>, <<"M","m">>, <<"N","n">>,
    <<"O","o">>, <<"P","p">>, <<"Q","q">>, <<"R","r">>, <<"S","s">>, <<"T","t">>, <<"U","u">>,
    <<"V","v">>, <<"W","w">>, <<"X","x">>, <<"Y","y">>, <<"Z","z">>}


(***************************************************************************)
(* String functions, computed as Python computes them.                     *)
(***************************************************************************)

\* str.isspace / the regex class \s, on the characters the model uses
IsSpace(c) == c \in {" ", "\n", "\t"}

\* the regex class [.!?]
IsTerminal(c) == c \in {".", "!", "?"}

\* the regex class \d
IsDigit(c) == c \in {"0", "1", "2", "3", "4", "5", "6", "7", "8", "9"}

RECURSIVE LStrip(_)
LStrip(s) == IF s # <<>> /\ IsSpace(Head(s)) THEN LStrip(Tail(s)) ELSE s

RECURSIVE RStrip(_)
RStrip(s) ==
    IF s # <<>> /\ IsSpace(s[Len(s)]) THEN RStrip(SubSeq(s, 1, Len(s) - 1)) ELSE s

\* str.strip()
Strip(s) == RStrip(LStrip(s))

\* str.lower()
LowerChar(c) ==
    IF \E p \in UpperLower : p[1] = c
    THEN (CHOOSE p \in UpperLower : p[1] = c)[2]
    ELSE c

Lower(s) == [i \in 1..Len(s) |-> LowerChar(s[i])]

\* sub in s
Contains(s, sub) ==
    \E i \in 1..(Len(s) + 1) :
        /\ i + Len(sub) - 1 <= Len(s)
        /\ SubSeq(s, i, i + Len(sub) - 1) = sub

\* re.split(r'(?<=[.!?])\s+', s): scan from i, the current part starts at start
RECURSIVE re_split(_, _, _)
re_split(s, i, start) ==
    IF i > Len(s)
    THEN <<SubSeq(s, start, Len(s))>>
    ELSE IF i > 1 /\ IsTerminal(s[i - 1]) /\ IsSpace(s[i])
         THEN LET rest == LStrip(SubSeq(s, i, Len(s)))
                  j == Len(s) - Len(rest) + 1
              IN  <<SubSeq(s, start, i - 1)>> \o re_split(s, j, j)
         ELSE re_split(s, i + 1, start)

\* [p.strip() for p in parts if p.strip()]
RECURSIVE strip_nonblank(_)
strip_nonblank(parts) ==
    IF parts = <<>> THEN <<>>
    ELSE IF Strip(Head(parts)) = <<>> THEN strip_nonblank(Tail(parts))
         ELSE <<Strip(Head(parts))>> \o strip_nonblank(Tail(parts))

\* app.py _split_sentences
split_sentences(text) == strip_nonblank(re_split(Strip(text), 1, 1))

\* the regex 03\d{9} matches at position i of s
PhoneAt(s, i) ==
    /\ i + PhoneDigits + 1 <= Len(s)
    /\ s[i] = "0" /\ s[i + 1] = "3"
    /\ \A k \in 2..(PhoneDigits + 1) : IsDigit(s[i + k])

\* utils.py detect_phone_number: the first match, <<>> for None
detect_phone_number(s) ==
    IF \E i \in 1..Len(s) : PhoneAt(s, i)
    THEN LET i == CHOOSE i \in 1..Len(s) :
                     PhoneAt(s, i) /\ \A j \in 1..(i - 1) : ~PhoneAt(s, j)
         IN  SubSeq(s, i, i + PhoneDigits + 1)
    ELSE <<>>

\* rag.py:458-461: escalated = any(p in reply.lower() for p in [...])
is_escalated(reply) == \E p \in DEFLECTION_PHRASES : Contains(Lower(reply), p)

\* what a generate_answer call can return: a fixed reply, or the model's
\* stripped reply with its classification (rag.py:391, 393, 414-417, 456-462,
\* 477-480)
GenerateAnswerResults ==
    {<<REPLY_WELCOME, FALSE>>, <<REPLY_THANK_YOU, FALSE>>,
     <<REPLY_NO_INFO, TRUE>>, <<REPLY_TECHNICAL, TRUE>>}
    \cup {<<r, is_escalated(r)>> : r \in LLM_REPLIES}

\* a model's reply of three sentences
ModelReply == <<"Y","e","s","."," "," ","N","o","?","\n","O","k",".">>

\* the answers generate_answer gives in the turns of this model: the
\* escalating fixed reply, of two sentences, and the model's reply
TurnAnswers ==
    {res \in GenerateAnswerResults : res[1] \in {REPLY_NO_INFO, ModelReply}}

(***************************************************************************)
(* The records file on disk.  The file is a sequence of bytes, one         *)
(* character each.  json.dump hands the text to the file object in the     *)
(* chunks of its encoder; the text layer of the file object collects them  *)
(* up to ChunkSize bytes and the binary layer writes to the file at its    *)
(* own offset.  json.load reads the file with one fstat and several reads  *)
(* and parses what it has read.  Nothing but the offsets is private:       *)
(* another open empties the file under a reader or a writer, and two       *)
(* writers write over each other.                                          *)
(***************************************************************************)

\* TextIOWrapper._CHUNK_SIZE, 8192 bytes in the source's runtime
ChunkSize == 128

\* the buffer of the BufferedWriter open() makes: st_blksize, 4096 bytes
BlockSize == 64

\* SMALLCHUNK of FileIO.readall, 8192 bytes
SmallChunk == 128

\* the 256 bytes FileIO.readall adds when it doubles its buffer
GrowBy == 4

\* a byte of the hole a write past the end of the file leaves
NUL == "nul"

\* a JSON value: a string, a literal, a number (s its characters), a list
\* (kids its items) or a dict (keys in order of insertion, kids the values)
V(t, s, kids, keys) == [t |-> t, s |-> s, kids |-> kids, keys |-> keys]

Str(s) == V("str", s, << >>, << >>)

Lit(name) == V("lit", name, << >>, << >>)

Num(s) == V("num", s, << >>, << >>)

Arr(items) == V("arr", << >>, items, << >>)

Obj(keys, vals) == V("obj", << >>, vals, keys)

None == Lit(<<"n","u","l","l">>)

True == Lit(<<"t","r","u","e">>)

False == Lit(<<"f","a","l","s","e">>)

\* o[k] for a dict o that holds the key k
get(o, k) == o.kids[CHOOSE j \in 1..Len(o.keys) : o.keys[j] = k]

\* k in o
has(o, k) == \E j \in 1..Len(o.keys) : o.keys[j] = k

\* o[k] = v: a key the dict holds keeps its place, a new one goes to the end
put(o, k, v) ==
    IF has(o, k)
    THEN Obj(o.keys, [o.kids EXCEPT ![CHOOSE j \in 1..Len(o.keys) : o.keys[j] = k] = v])
    ELSE Obj(Append(o.keys, k), Append(o.kids, v))

\* the concatenation of the sequences of a sequence
RECURSIVE flat(_)
flat(chunks) ==
    IF chunks = << >> THEN << >> ELSE Head(chunks) \o flat(Tail(chunks))

\* json.encoder (ensure_ascii): the characters of a string with the quote,
\* the backslash, the newline, the carriage return and the tab escaped.
\* The texts of this model are ASCII and hold no other control character,
\* so the \uXXXX, \b and \f escapes are never written and never read
EscapedAs == [c \in {"\"", "\\", "\n", "\r", "\t"} |->
                 CASE c = "\n" -> "n" [] c = "\r" -> "r" [] c = "\t" -> "t"
                   [] OTHER -> c]

RECURSIVE escaped(_)
escaped(s) ==
    IF \A j \in 1..Len(s) : s[j] \notin DOMAIN EscapedAs THEN s
    ELSE LET j == CHOOSE j \in 1..Len(s) :
                      /\ s[j] \in DOMAIN EscapedAs
                      /\ \A k \in 1..(j - 1) : s[k] \notin DOMAIN EscapedAs
         IN  SubSeq(s, 1, j - 1)
             \o <<"\\", EscapedAs[s[j]]>>
             \o escaped(SubSeq(s, j + 1, Len(s)))

quoted(s) == <<"\"">> \o escaped(s) \o <<"\"">>

\* the newline and the indentation of level n (indent=2)
newline_indent(n) == <<"\n">> \o [i \in 1..(2 * n) |-> " "]

\* json.encoder._make_iterencode with indent=2: the chunks the encoder
\* yields for the value v at level lvl.  The separator before an item of a
\* list is yielded together with a string, a literal or a number and on its
\* own before a list or a dict; the separator before a key of a dict is a
\* chunk of its own, as are the key and the colon
RECURSIVE iterencode(_, _), iterencode_list(_, _, _), iterencode_dict(_, _, _)
iterencode(v, lvl) ==
    CASE v.t = "str" -> << quoted(v.s) >>
      [] v.t \in {"lit", "num"} -> << v.s >>
      [] v.t = "arr" ->
            IF v.kids = << >> THEN << <<"[", "]">> >>
            ELSE iterencode_list(v.kids, 1, lvl + 1)
                 \o << newline_indent(lvl), <<"]">> >>
      [] v.t = "obj" ->
            IF v.keys = << >> THEN << <<"{", "}">> >>
            ELSE << <<"{">>, newline_indent(lvl + 1) >>
                 \o iterencode_dict(v, 1, lvl + 1)
                 \o << newline_indent(lvl), <<"}">> >>

iterencode_list(items, i, lvl) ==
    IF i > Len(items) THEN << >>
    ELSE LET buf == (IF i = 1 THEN <<"[">> ELSE <<",">>) \o newline_indent(lvl)
         IN  (IF items[i].t \in {"str", "lit", "num"}
              THEN << buf \o iterencode(items[i], lvl)[1] >>
              ELSE << buf >> \o iterencode(items[i], lvl))
             \o iterencode_list(items, i + 1, lvl)

iterencode_dict(o, i, lvl) ==
    IF i > Len(o.keys) THEN << >>
    ELSE (IF i = 1 THEN << >> ELSE << <<",">> \o newline_indent(lvl) >>)
         \o << quoted(o.keys[i]), <<":", " ">> >>
         \o iterencode(o.kids[i], lvl)
         \o iterencode_dict(o, i + 1, lvl)

\* utils.py:26, 44, 53: json.dump(data, f, indent=2): the strings f.write is
\* called with, in order
json_dump(data) == iterencode(data, 0)

\* TextIOWrapper.write and close: the bytes the text layer hands to the
\* binary layer, in order.  A chunk that would take the pending bytes past
\* ChunkSize has them handed over first; bytes that have reached
\* ChunkSize are handed over at once; the close hands over the rest
RECURSIVE text_layer(_, _)
text_layer(chunks, kept) ==
    IF chunks = << >> THEN (IF kept = << >> THEN << >> ELSE <<kept>>)
    ELSE LET b == Head(chunks)
             over == kept # << >> /\ Len(kept) + Len(b) > ChunkSize
             held == IF over THEN b ELSE kept \o b
         IN  (IF over THEN <<kept>> ELSE << >>)
             \o (IF Len(held) >= ChunkSize
                 THEN <<held>> \o text_layer(Tail(chunks), << >>)
                 ELSE text_layer(Tail(chunks), held))

\* BufferedWriter.write and close: the writes to the file, in order.  Bytes
\* that fit into the rest of the buffer are kept; otherwise the buffer is
\* written, and then the bytes themselves when they are more than a buffer
\* takes; the close writes what the buffer holds
RECURSIVE binary_layer(_, _)
binary_layer(pieces, buffer) ==
    IF pieces = << >> THEN (IF buffer = << >> THEN << >> ELSE <<buffer>>)
    ELSE LET b == Head(pieces)
         IN  IF Len(b) <= BlockSize - Len(buffer)
             THEN binary_layer(Tail(pieces), buffer \o b)
             ELSE (IF buffer = << >> THEN << >> ELSE <<buffer>>)
                  \o (IF Len(b) > BlockSize
                      THEN <<b>> \o binary_layer(Tail(pieces), << >>)
                      ELSE binary_layer(Tail(pieces), b))

\* the writes a file object makes, up to its close, for the chunks written
\* to it
file_writes(chunks) == binary_layer(text_layer(chunks, << >>), << >>)

\* the file after a write of bytes b at offset pos: what was there is
\* written over, and a write that begins past the end leaves a hole
write_at(file, pos, b) ==
    IF b = << >> THEN file
    ELSE LET end == pos + Len(b)
             len == IF end > Len(file) THEN end ELSE Len(file)
         IN  [i \in 1..len |->
                 IF i > pos /\ i <= end THEN b[i - pos]
                 ELSE IF i <= Len(file) THEN file[i] ELSE NUL]

\* FileIO.readall: the size of the buffer for a file of size bytes at the
\* fstat, and the size of the buffer grown once bytes_read fill it
first_bufsize(size) == IF size > 0 THEN size + 1 ELSE SmallChunk

new_buffersize(bytes_read) ==
    LET addend == IF bytes_read > 8 * SmallChunk THEN bytes_read \div 8
                  ELSE GrowBy + bytes_read
    IN  bytes_read + (IF addend < SmallChunk THEN SmallChunk ELSE addend)

\* the bytes one read(2) asks for with bytes_read in a buffer of bufsize
asked(bufsize, bytes_read) ==
    (IF bytes_read >= bufsize THEN new_buffersize(bytes_read) ELSE bufsize)
    - bytes_read

\* read(2) of n bytes at offset pos
read_at(file, pos, n) ==
    SubSeq(file, pos + 1, IF pos + n < Len(file) THEN pos + n ELSE Len(file))

\* json.decoder: whitespace
IsWs(c) == c \in {" ", "\n", "\t", "\r"}

Digits == {"0","1","2","3","4","5","6","7","8","9"}

RECURSIVE skip(_, _)
skip(s, i) == IF i <= Len(s) /\ IsWs(s[i]) THEN skip(s, i + 1) ELSE i

RECURSIVE digits_end(_, _)
digits_end(s, i) ==
    IF i <= Len(s) /\ s[i] \in Digits THEN digits_end(s, i + 1) ELSE i

\* a parse that raised, and a parse that gave v and stopped before index i
Bad == [ok |-> FALSE, v |-> None, i |-> 0]

Good(v, i) == [ok |-> TRUE, v |-> v, i |-> i]

starts(s, i, w) ==
    i + Len(w) - 1 <= Len(s) /\ SubSeq(s, i, i + Len(w) - 1) = w

\* the characters py_scanstring stops at: the quote, the backslash and the
\* control characters
Special == {"\"", "\\", "\n", "\t", "\r", NUL}

\* the characters scanstring takes in one step when none of them is special
Stride == 16

\* py_scanstring: the characters of the string whose opening quote is
\* before index i, read into acc; a control character, a backslash before
\* anything but an escape, and the end of the text raise
RECURSIVE scanstring(_, _, _)
scanstring(s, i, acc) ==
    LET last == IF i + Stride - 1 < Len(s) THEN i + Stride - 1 ELSE Len(s)
        plain == \A j \in i..last : s[j] \notin Special
        stop == CHOOSE j \in i..last :
                    s[j] \in Special /\ \A k \in i..(j - 1) : s[k] \notin Special
    IN  IF i > Len(s) THEN Bad
        ELSE IF plain THEN scanstring(s, last + 1, acc \o SubSeq(s, i, last))
        ELSE LET got == acc \o SubSeq(s, i, stop - 1)
             IN  IF s[stop] = "\"" THEN Good(Str(got), stop + 1)
                 ELSE IF s[stop] # "\\" \/ stop + 1 > Len(s) THEN Bad
                 ELSE CASE s[stop + 1] \in {"\"", "\\", "/"} ->
                             scanstring(s, stop + 2, Append(got, s[stop + 1]))
                        [] s[stop + 1] = "n" ->
                             scanstring(s, stop + 2, Append(got, "\n"))
                        [] s[stop + 1] = "t" ->
                             scanstring(s, stop + 2, Append(got, "\t"))
                        [] s[stop + 1] = "r" ->
                             scanstring(s, stop + 2, Append(got, "\r"))
                        [] OTHER -> Bad

\* json.scanner NUMBER_RE, the integer part -?(0|[1-9][0-9]*), read with
\* int(): "-0" is the integer 0.  No text of this model has a digit before
\* a fraction or an exponent, or the words NaN and Infinity, so floats are
\* not read
scan_number(s, i) ==
    LET d == IF s[i] = "-" THEN i + 1 ELSE i
        e == IF d <= Len(s) /\ s[d] = "0" THEN d + 1 ELSE digits_end(s, d)
        text == SubSeq(s, i, e - 1)
    IN  IF e = d THEN Bad
        ELSE Good(Num(IF text = <<"-", "0">> THEN <<"0">> ELSE text), e)

\* json.scanner: the value at index i; a dict from its first key on, with
\* the items read into o; a list from its first item on
RECURSIVE scan_once(_, _), scan_dict(_, _, _), scan_list(_, _, _)
scan_once(s, i) ==
    IF i > Len(s) THEN Bad
    ELSE CASE s[i] = "\"" -> scanstring(s, i + 1, << >>)
           [] s[i] = "{" ->
                LET j == skip(s, i + 1)
                IN  IF j <= Len(s) /\ s[j] = "}" THEN Good(Obj(<< >>, << >>), j + 1)
                    ELSE scan_dict(s, j, Obj(<< >>, << >>))
           [] s[i] = "[" ->
                LET j == skip(s, i + 1)
                IN  IF j <= Len(s) /\ s[j] = "]" THEN Good(Arr(<< >>), j + 1)
                    ELSE scan_list(s, j, << >>)
           [] s[i] = "n" -> IF starts(s, i, None.s) THEN Good(None, i + 4) ELSE Bad
           [] s[i] = "t" -> IF starts(s, i, True.s) THEN Good(True, i + 4) ELSE Bad
           [] s[i] = "f" -> IF starts(s, i, False.s) THEN Good(False, i + 5) ELSE Bad
           [] s[i] \in Digits \cup {"-"} -> scan_number(s, i)
           [] OTHER -> Bad

scan_dict(s, i, o) ==
    IF i > Len(s) \/ s[i] # "\"" THEN Bad
    ELSE LET k == scanstring(s, i + 1, << >>)
         IN  IF ~k.ok THEN Bad
             ELSE LET c == skip(s, k.i)
                  IN  IF c > Len(s) \/ s[c] # ":" THEN Bad
                      ELSE LET r == scan_once(s, skip(s, c + 1))
                           IN  IF ~r.ok THEN Bad
                               ELSE LET n == skip(s, r.i)
                                        more == put(o, k.v.s, r.v)
                                    IN  IF n > Len(s) THEN Bad
                                        ELSE IF s[n] = "}" THEN Good(more, n + 1)
                                        ELSE IF s[n] = ","
                                             THEN scan_dict(s, skip(s, n + 1), more)
                                        ELSE Bad

scan_list(s, i, items) ==
    LET r == scan_once(s, i)
    IN  IF ~r.ok THEN Bad
        ELSE LET n == skip(s, r.i)
             IN  IF n > Len(s) THEN Bad
                 ELSE IF s[n] = "]" THEN Good(Arr(Append(items, r.v)), n + 1)
                 ELSE IF s[n] = ","
                      THEN scan_list(s, skip(s, n + 1), Append(items, r.v))
                 ELSE Bad

\* utils.py:16, 30, 48, 66: json.load(f) on the bytes f.read() returned: the
\* value, or ok = FALSE when it raises (no value, or more text after it)
json_load(bytes) ==
    LET r == scan_once(bytes, skip(bytes, 1))
    IN  IF r.ok /\ skip(bytes, r.i) > Len(bytes) THEN r ELSE Bad

(***************************************************************************)
(* src/utils.py: the call records and the lead log.                        *)
(***************************************************************************)

\* the names of the fields of a record and of a turn
K_START_TIME == <<"s","t","a","r","t","_","t","i","m","e">>

K_TURNS == <<"t","u","r","n","s">>

K_ESCALATED == <<"e","s","c","a","l","a","t","e","d">>

K_PHONE == <<"p","h","o","n","e">>

K_END_TIME == <<"e","n","d","_","t","i","m","e">>

K_USER == <<"u","s","e","r">>

K_AGENT == <<"a","g","e","n","t">>

\* the character of the decimal digit n
digit(n) == <<"0","1","2","3","4","5","6","7","8","9">>[n + 1]

\* the key of session s in the records: a session id is an opaque string,
\* str(uuid.uuid4()) in app.py:153, and every id has the same length; it is
\* written with one character
session_key(s) == <<digit(s)>>

\* utils.py:19, 50: str(datetime.now()), a string the program never reads;
\* it is written with one character
CLOCK_TEXT == <<"t">>

\* utils.py:18: data[session_id] = ... raises unless data is a dict
init_raises(data) == data.t # "obj"

\* init_call_record, utils.py:18-23: data[session_id] = {...}
init_call_record(data, s) ==
    put(data, session_key(s),
        Obj(<<K_START_TIME, K_TURNS, K_ESCALATED, K_PHONE>>,
            <<Str(CLOCK_TEXT), Arr(<< >>), False, None>>))

\* utils.py:32: data[session_id]["turns"].append(...) raises KeyError
\* without a record of the session or without its turns, TypeError when
\* the data or the record is no dict, AttributeError when the turns are no
\* list
update_raises(data, s) ==
    ~ /\ data.t = "obj" /\ has(data, session_key(s))
      /\ get(data, session_key(s)).t = "obj"
      /\ has(get(data, session_key(s)), K_TURNS)
      /\ get(get(data, session_key(s)), K_TURNS).t = "arr"

\* update_call_record, utils.py:32-41, on the copy json.load returned
update_call_record(data, s, user, agent, escalated, phone) ==
    LET rec == get(data, session_key(s))
        turn_ == Obj(<<K_USER, K_AGENT>>, <<Str(user), Str(agent)>>)
        appended == put(rec, K_TURNS, Arr(Append(get(rec, K_TURNS).kids, turn_)))
        flagged == IF escalated THEN put(appended, K_ESCALATED, True) ELSE appended
    IN  put(data, session_key(s),
            IF phone # << >> THEN put(flagged, K_PHONE, Str(phone)) ELSE flagged)

\* bool(v) of Python is False
falsy(v) ==
    \/ v.t = "lit" /\ v # True
    \/ v.t = "str" /\ v.s = << >>
    \/ v.t = "num" /\ v.s \in {<<"0">>, <<"-","0">>}
    \/ v.t = "arr" /\ v.kids = << >>
    \/ v.t = "obj" /\ v.keys = << >>

\* get_last_user_query, utils.py:67-71, on what json.load returned: the
\* user text of the last turn of the session; None without a record, with
\* turns that are empty or missing, and when an exception is caught (data or
\* the record no dict, turns no list, a last turn that is no dict or has no
\* user text)
get_last_user_query(data, s) ==
    IF data.t # "obj" \/ ~has(data, session_key(s)) THEN None
    ELSE LET rec == get(data, session_key(s))
         IN  IF rec.t # "obj" \/ ~has(rec, K_TURNS) THEN None
             ELSE LET turns == get(rec, K_TURNS)
                  IN  IF falsy(turns) \/ turns.t # "arr" THEN None
                      ELSE LET t == turns.kids[Len(turns.kids)]
                           IN  IF t.t = "obj" /\ has(t, K_USER)
                               THEN get(t, K_USER) ELSE None

\* str.__repr__: the quote Python puts around a string, and the string
\* with the backslash, that quote and the control characters escaped
py_quote(s) ==
    IF (\E j \in 1..Len(s) : s[j] = "'") /\ (\A j \in 1..Len(s) : s[j] # "\"")
    THEN "\"" ELSE "'"

RECURSIVE py_escaped(_, _)
py_escaped(s, q) ==
    LET special == {"\\", q, "\n", "\r", "\t"}
    IN  IF \A j \in 1..Len(s) : s[j] \notin special THEN s
        ELSE LET j == CHOOSE j \in 1..Len(s) :
                          /\ s[j] \in special
                          /\ \A k \in 1..(j - 1) : s[k] \notin special
             IN  SubSeq(s, 1, j - 1)
                 \o <<"\\", CASE s[j] = "\n" -> "n" [] s[j] = "\r" -> "r"
                              [] s[j] = "\t" -> "t" [] OTHER -> s[j]>>
                 \o py_escaped(SubSeq(s, j + 1, Len(s)), q)

\* the texts of a sequence with ", " between them
RECURSIVE comma_joined(_)
comma_joined(parts) ==
    IF parts = << >> THEN << >>
    ELSE IF Len(parts) = 1 THEN parts[1]
    ELSE parts[1] \o <<",", " ">> \o comma_joined(Tail(parts))

\* repr() of a value json.load returned
RECURSIVE py_repr(_)
py_repr(v) ==
    CASE v.t = "str" ->
           LET q == py_quote(v.s) IN <<q>> \o py_escaped(v.s, q) \o <<q>>
      [] v.t = "num" -> v.s
      [] v.t = "lit" ->
           IF v = None THEN <<"N", "o", "n", "e">>
           ELSE IF v = True THEN <<"T", "r", "u", "e">>
           ELSE <<"F", "a", "l", "s", "e">>
      [] v.t = "arr" ->
           <<"[">> \o comma_joined([j \in 1..Len(v.kids) |-> py_repr(v.kids[j])])
                   \o <<"]">>
      [] v.t = "obj" ->
           <<"{">> \o comma_joined([j \in 1..Len(v.kids) |->
                          py_repr(Str(v.keys[j])) \o <<":", " ">>
                              \o py_repr(v.kids[j])])
                   \o <<"}">>

\* utils.py:58: the text the f-string makes of the query: str(query), a
\* string as it is and any other value as its repr
query_text(v) == IF v.t = "str" THEN v.s ELSE py_repr(v)

\* app.py:209, 302: get_last_user_query(session_id) or user_text, for the
\* bytes json.load read; None as well when json.load raises (utils.py:70)
unanswered_query(bytes, s, user_text) ==
    LET loaded == json_load(bytes)
        last == IF loaded.ok THEN get_last_user_query(loaded.v, s) ELSE None
    IN  IF falsy(last) THEN user_text ELSE query_text(last)

\* utils.py:57: open(LEAD_LOG_FILE, "a") raises FileNotFoundError while the
\* directory logs/ does not exist (only init_call_record creates it)
lead_raises(logs) == ~logs

\* append_lead_log: one line per lead, when the file can be opened
append_lead_log(logs, log, s, phone, query) ==
    IF lead_raises(logs) THEN log
    ELSE Append(log, [session |-> s, phone |-> phone, query |-> query])

\* a turn as init_call_record and update_call_record write it
is_turn(v) ==
    /\ v.t = "obj" /\ v.keys = <<K_USER, K_AGENT>>
    /\ \A j \in 1..2 : v.kids[j].t = "str"

\* a record as they write it
is_record(v) ==
    /\ v.t = "obj"
    /\ v.keys \in {<<K_START_TIME, K_TURNS, K_ESCALATED, K_PHONE>>,
                   <<K_START_TIME, K_TURNS, K_ESCALATED, K_PHONE, K_END_TIME>>}
    /\ get(v, K_TURNS).t = "arr"
    /\ \A j \in 1..Len(get(v, K_TURNS).kids) : is_turn(get(v, K_TURNS).kids[j])
    /\ get(v, K_ESCALATED) \in {True, False}
    /\ get(v, K_PHONE) = None \/ get(v, K_PHONE).t = "str"

\* the records as they write them: a dict of records under session keys
has_shape(v) ==
    /\ v.t = "obj"
    /\ \A j \in 1..Len(v.keys) :
          /\ \E s \in 1..9 : v.keys[j] = session_key(s)
          /\ is_record(v.kids[j])

\* the record v: its turns, its flag, its number (<< >> for None) and
\* whether end_call_record has stamped it
record_of(v) ==
    [turns |-> [j \in 1..Len(get(v, K_TURNS).kids) |->
                   [user |-> get(v, K_TURNS).kids[j].kids[1].s,
                    agent |-> get(v, K_TURNS).kids[j].kids[2].s]],
     escalated |-> get(v, K_ESCALATED) = True,
     phone |-> IF get(v, K_PHONE) = None THEN << >> ELSE get(v, K_PHONE).s,
     ended |-> has(v, K_END_TIME)]

\* the records of the value v, session by session; none when v is not
\* shaped as the records are
records_of(v) ==
    IF ~has_shape(v) THEN << >>
    ELSE [s \in {x \in 1..9 : has(v, session_key(x))} |->
             record_of(get(v, session_key(s)))]

\* the records json.load returns from the bytes of a file; none when it
\* raises
records_in(bytes) ==
    LET loaded == json_load(bytes)
    IN  IF loaded.ok THEN records_of(loaded.v) ELSE << >>

\* the records json.load returns from the file as it is
stored == records_in(call_records)

\* one token per sentence, as the streaming turn does
tts_per_sentence(reply) == split_sentences(reply)

\* app.py:212, 220: query passes the whole reply to generate_tts
query_tts_texts(reply) == <<reply>>

\* app.py:316-318: query_stream passes each sentence to generate_tts
stream_tts_texts(reply) == split_sentences(reply)

\* generate_tts called once per text of texts, by turn q: the maps afterwards
RECURSIVE tts_all(_, _, _, _)
tts_all(p, c, texts, q) ==
    IF texts = <<>>
    THEN [pending |-> p, created |-> c]
    ELSE LET t == CHOOSE t \in uuid4({c[i].token : i \in 1..Len(c)}) : TRUE
         IN  tts_all(pending_insert(p, t, Head(texts)),
                     Append(c, [token |-> t, text |-> Head(texts), by |-> q]),
                     Tail(texts), q)

\* the tokens turn q created, in order of creation
RECURSIVE TokensBy(_, _)
TokensBy(c, q) ==
    IF c = <<>> THEN <<>>
    ELSE IF Head(c).by = q THEN <<Head(c).token>> \o TokensBy(Tail(c), q)
         ELSE TokensBy(Tail(c), q)

\* the events of the stream (_sse), and the JSON results of query
Event(type, text, token) == [type |-> type, text |-> text, token |-> token]

\* the request threads of this part: the thread of start_call and the turns
Starter == 0

\* requests the server handles in one run
MaxRequests == 3

\* the requests the server has begun to handle
Handled == Cardinality(wk.begun) + Cardinality({q \in Turns : turn[q].pc # "idle"})

Threads == Turns \cup {Starter}

\* the locals of a handler: last is the lead's query; buf the bytes json.load
\* has read so far, into a buffer of bufsize bytes; data the changed copy of
\* what it returned; out the writes the file object has still to make and
\* pos its offset; clobbered whether another thread emptied the records
\* file, or wrote into it, since this one began to read it or opened it for
\* writing
NewTurn == [pc |-> "idle", mode |-> "query", session |-> NoSession,
            user_text |-> <<>>, phone |-> <<>>, last |-> <<>>, reply |-> <<>>,
            escalated |-> FALSE, todo |-> <<>>, events |-> <<>>,
            status |-> 0, error |-> <<>>, response |-> <<>>,
            audio_token |-> 0, ga_calls |-> 0, data |-> None, buf |-> <<>>,
            bufsize |-> 0, out |-> <<>>, pos |-> 0, clobbered |-> FALSE]

\* the session ids start_call has returned to a client
ReturnedSessions ==
    {s \in wk.inited : turn[Starter].session = s => turn[Starter].pc = "done"}

\* the session ids a client can send: one start_call returned, a made-up one, none
ClientSessions == ReturnedSessions \cup {StrangerSession, NoSession}

\* the position after the transcript check of a turn with this transcript
AfterTranscript(mode, text) ==
    IF detect_phone_number(text) # <<>>
    THEN (IF mode = "query" THEN "q_phone" ELSE "s_phone")
    ELSE (IF mode = "query" THEN "q_rag" ELSE "s_rag")

\* a transcript check that lets everything but the empty transcript through
too_short_empty_only(text) == text = <<>>

\* app.py:200, 295: not user_text or len(user_text.strip()) < 3
TooShort(text) == text = <<>> \/ Len(Strip(text)) < MinTranscriptLen

(***************************************************************************)
(* src/app.py: start_call, query and query_stream.  A handler is a         *)
(* sequence of calls with no lock around them; every call that reads or    *)
(* writes the pending map, the records file or the lead log is a step of   *)
(* its own, and update_call_record and init_call_record are several: the   *)
(* json.load, the open for writing, one write for every buffer json.dump   *)
(* fills, the close.                                                       *)
(***************************************************************************)

\* a turn returns its JSON result
Result(q, st, err, resp, tok) ==
    [turn EXCEPT ![q].pc = "done", ![q].status = st, ![q].error = err,
                 ![q].response = resp, ![q].audio_token = tok]

\* a generator that goes on after the event where it should return
yield_without_return(q, ev, pc) ==
    [turn EXCEPT ![q].events = Append(@, ev),
                 ![q].pc = IF pc = "done" THEN "s_loop" ELSE pc]

\* a turn's generator yields an event
Yield(q, ev, pc) == [turn EXCEPT ![q].events = Append(@, ev), ![q].pc = pc]

\* app.py:226-228, 323-325: the except branch of the turn's handler
Failed(q) ==
    IF turn[q].mode = "query"
    THEN Result(q, 500, ERR_FAILED, <<>>, 0)
    ELSE Yield(q, Event("error", ERR_SERVER, 0), "done")

LastToken(c) == c[Len(c)].token

\* the positions of a thread inside json.load, between the fstat and the
\* last read, and those of a thread that holds the records file open for
\* writing, with writes still to make
InFile == {"c_read", "u_read", "p_read",
           "c_created", "c_dump", "c_close", "u_dump", "u_close"}

\* the threads once thread q has emptied the records file or written into
\* it: every other thread that reads it, or holds it open, is no longer
\* alone with it
touched_by(q) ==
    [o \in Threads |->
        IF o # q /\ turn[o].pc \in InFile
        THEN [turn[o] EXCEPT !.clobbered = TRUE]
        ELSE turn[o]]

\* the locals of a thread that has left the records file
closed(me) ==
    [me EXCEPT !.data = None, !.buf = << >>, !.bufsize = 0, !.out = << >>,
               !.pos = 0, !.clobbered = FALSE]

\* utils.py:15-16, 29-30, 47-48, 65-66: open(CALL_RECORD_FILE, "r") and the
\* fstat of json.load's f.read(): a buffer for the size of the file
opened_for_reading(me, file) ==
    [closed(me) EXCEPT !.bufsize = first_bufsize(Len(file))]

\* the bytes the next read(2) of json.load returns
next_read(me, file) == read_at(file, Len(me.buf), asked(me.bufsize, Len(me.buf)))

\* the locals after a read(2) that returned the bytes got: the buffer was
\* grown first when it was full
after_read(me, got) ==
    [me EXCEPT !.buf = @ \o got,
               !.bufsize = IF Len(me.buf) >= @ THEN new_buffersize(Len(me.buf))
                           ELSE @]

\* utils.py:12-13, 25-26, 43-44, 52-53: open(CALL_RECORD_FILE, "w") and
\* json.dump of the chunks: the writes the file object will make
opened_for_writing(me, chunks) ==
    [closed(me) EXCEPT !.data = me.data, !.out = file_writes(chunks)]

\* the locals after the next write
after_write(me) == [me EXCEPT !.pos = @ + Len(Head(me.out)), !.out = Tail(@)]

\* the turns with the locals of thread q as they are outside the file
Reset(t, q) == [t EXCEPT ![q] = closed(t[q])]

\* start_call, lines 153-155, and utils.py:10: the fresh session id s and
\* os.makedirs("logs", exist_ok=True)
StartCall(s) ==
    /\ turn[Starter].pc \in {"idle", "done"}
    /\ Handled < MaxRequests
    /\ s \in uuid4(wk.begun)
    /\ turn' = [turn EXCEPT ![Starter] =
                  [NewTurn EXCEPT !.pc = "c_exists", !.mode = "start", !.session = s]]
    /\ wk' = [wk EXCEPT !.begun = @ \cup {s}, !.logs = TRUE]
    /\ UNCHANGED <<pending, created, call_records, lead_log, gateway_only, ga, rc, syn>>

\* utils.py:11: os.path.exists(CALL_RECORD_FILE); with the file there,
\* utils.py:15-16: open and the fstat of json.load (the file is never
\* removed, so the test and the open see the same)
StartExists ==
    /\ turn[Starter].pc = "c_exists"
    /\ turn' = [turn EXCEPT ![Starter] =
                  IF wk.exists
                  THEN [opened_for_reading(turn[Starter], call_records)
                           EXCEPT !.pc = "c_read"]
                  ELSE [turn[Starter] EXCEPT !.pc = "c_create"]]
    /\ UNCHANGED <<pending, created, call_records, lead_log, gateway_only, ga_only>>

\* utils.py:15-16, after the file was created: open and the fstat of
\* json.load
StartStat ==
    /\ turn[Starter].pc = "c_stat"
    /\ turn' = [turn EXCEPT ![Starter] =
                  [opened_for_reading(turn[Starter], call_records)
                      EXCEPT !.pc = "c_read"]]
    /\ UNCHANGED <<pending, created, call_records, lead_log, gateway_only, ga_only>>

\* utils.py:16-23: one read(2) of json.load; with the read that returns
\* nothing json.load parses what it has read and the record of the session
\* is put into the copy; an exception ends start_call with the 500 of
\* app.py:166-168
StartRead ==
    /\ turn[Starter].pc = "c_read"
    /\ LET me == turn[Starter]
           got == next_read(me, call_records)
           loaded == json_load(me.buf)
       IN  turn' = [turn EXCEPT ![Starter] =
                      IF got # << >> THEN after_read(me, got)
                      ELSE IF ~loaded.ok \/ init_raises(loaded.v)
                           THEN [closed(me) EXCEPT !.pc = "done", !.status = 500,
                                                   !.error = ERR_START]
                           ELSE [closed(me) EXCEPT
                                    !.pc = "c_open",
                                    !.data = init_call_record(loaded.v, me.session)]]
    /\ UNCHANGED <<pending, created, call_records, lead_log, gateway_only, ga_only>>

\* utils.py:12-13, 25-26: open(CALL_RECORD_FILE, "w") makes the file, or
\* empties it, and json.dump hands its chunks to the file object; {} stays
\* in the buffer
StartOpen ==
    /\ turn[Starter].pc \in {"c_create", "c_open"}
    /\ LET me == turn[Starter]
           mine == opened_for_writing(me, IF me.pc = "c_create"
                                          THEN json_dump(Obj(<< >>, << >>))
                                          ELSE json_dump(me.data))
       IN  turn' = [touched_by(Starter) EXCEPT
                      ![Starter] =
                          [mine EXCEPT !.pc = IF me.pc = "c_create" THEN "c_created"
                                              ELSE IF Len(mine.out) > 1 THEN "c_dump"
                                              ELSE "c_close"]]
    /\ call_records' = << >>
    /\ wk' = [wk EXCEPT !.exists = TRUE]
    /\ UNCHANGED <<pending, created, lead_log, gateway_only, ga, rc, syn>>

\* utils.py:26: a write of the file object that is not its last, at its
\* offset: inside json.dump(data, f, indent=2), or the first of two the
\* close makes
StartDump ==
    /\ turn[Starter].pc = "c_dump"
    /\ LET me == turn[Starter]
       IN  /\ call_records' = write_at(call_records, me.pos, Head(me.out))
           /\ turn' = [touched_by(Starter) EXCEPT
                         ![Starter] =
                             [after_write(me) EXCEPT
                                 !.pc = IF Len(me.out) > 2 THEN "c_dump"
                                        ELSE "c_close"]]
    /\ UNCHANGED <<pending, created, lead_log, gateway_only, ga_only>>

\* utils.py:12-13: the end of the with-block writes {} from the buffer into
\* the file just created and init_call_record goes on to read it;
\* utils.py:25-26: the last write of the file object, at its offset, and
\* init_call_record returns
StartClose ==
    /\ turn[Starter].pc \in {"c_created", "c_close"}
    /\ LET me == turn[Starter]
       IN  /\ call_records' = write_at(call_records, me.pos, Head(me.out))
           /\ wk' = [wk EXCEPT !.inited = IF me.pc = "c_close"
                                          THEN @ \cup {me.session} ELSE @]
           /\ turn' = [touched_by(Starter) EXCEPT
                         ![Starter] =
                             [closed(me) EXCEPT !.pc = IF me.pc = "c_created"
                                                       THEN "c_stat" ELSE "c_greet"]]
    /\ UNCHANGED <<pending, created, lead_log, gateway_only, ga, rc, syn>>

\* start_call, lines 156-165: the room token, the greeting's token, the reply
StartGreet ==
    /\ turn[Starter].pc = "c_greet"
    /\ LET after == tts_all(pending, created, <<GREETING>>, Starter)
       IN  /\ pending' = after.pending
           /\ created' = after.created
           /\ turn' = [turn EXCEPT ![Starter].pc = "done", ![Starter].status = 200,
                                   ![Starter].response = GREETING,
                                   ![Starter].audio_token = LastToken(after.created)]
    /\ UNCHANGED <<call_records, lead_log, gateway_only, ga_only>>

\* query, lines 174-204: the request is checked and transcribed
QueryStart(q, s, has_audio, text) ==
    /\ turn[q].pc = "idle"
    /\ Handled < MaxRequests
    /\ \A p \in Turns : p < q => turn[p].pc # "idle"
    /\ IF s = NoSession \/ ~has_audio
       THEN turn' = [turn EXCEPT ![q] =
                        [NewTurn EXCEPT !.pc = "done", !.mode = "query", !.session = s,
                                        !.status = 400, !.error = ERR_INVALID]]
       ELSE IF TooShort(text)
            THEN turn' = [turn EXCEPT ![q] =
                        [NewTurn EXCEPT !.pc = "done", !.mode = "query", !.session = s,
                                        !.user_text = text,
                                        !.status = 200, !.error = ERR_HEAR_QUERY]]
            ELSE turn' = [turn EXCEPT ![q] =
                        [NewTurn EXCEPT !.pc = AfterTranscript("query", text),
                                        !.mode = "query", !.session = s,
                                        !.user_text = text,
                                        !.phone = detect_phone_number(text)]]
    /\ UNCHANGED <<pending, created, call_records, lead_log, gateway_only, ga_only>>

\* query, line 209, and utils.py:63-66: get_last_user_query returns None
\* without the file; with the file there, open and the fstat of json.load
QueryPhone(q) ==
    /\ turn[q].pc = "q_phone"
    /\ turn' = [turn EXCEPT ![q] =
                  IF wk.exists
                  THEN [opened_for_reading(turn[q], call_records)
                           EXCEPT !.pc = "p_read"]
                  ELSE [turn[q] EXCEPT !.pc = "lead", !.last = turn[q].user_text]]
    /\ UNCHANGED <<pending, created, call_records, lead_log, gateway_only, ga_only>>

\* utils.py:66-71 and app.py:209, 302: one read(2) of json.load; with the
\* read that returns nothing get_last_user_query gives the user text of the
\* session's last turn in what was read, and the handler takes the
\* transcript when that is None
LastQuery(q) ==
    /\ turn[q].pc = "p_read"
    /\ LET me == turn[q]
           got == next_read(me, call_records)
       IN  turn' = [turn EXCEPT ![q] =
                      IF got # << >> THEN after_read(me, got)
                      ELSE [closed(me) EXCEPT
                               !.pc = "lead",
                               !.last = unanswered_query(me.buf, me.session,
                                                         me.user_text)]]
    /\ UNCHANGED <<pending, created, call_records, lead_log, gateway_only, ga_only>>

\* query, lines 210-211, and generate(), lines 303-304: append_lead_log and
\* the fixed reply; the exception of append_lead_log ends the turn
LeadLog(q) ==
    /\ turn[q].pc = "lead"
    /\ lead_log' = append_lead_log(wk.logs, lead_log, turn[q].session, turn[q].phone,
                                   turn[q].last)
    /\ turn' = IF lead_raises(wk.logs) THEN Failed(q)
               ELSE [turn EXCEPT ![q].reply = REPLY_PHONE,
                                 ![q].escalated = TRUE,
                                 ![q].pc = IF turn[q].mode = "query" THEN "q_tts"
                                           ELSE "u_stat"]
    /\ UNCHANGED <<pending, created, call_records, gateway_only, ga_only>>

\* query, lines 218-219: get_recent_turns and generate_answer
QueryRag(q) ==
    /\ turn[q].pc = "q_rag"
    /\ \E res \in TurnAnswers :
          turn' = [turn EXCEPT ![q].pc = "q_tts", ![q].reply = res[1],
                               ![q].escalated = res[2], ![q].ga_calls = @ + 1]
    /\ UNCHANGED <<pending, created, call_records, lead_log, gateway_only, ga_only>>

\* query, lines 212 and 220: generate_tts(reply)
QueryFinish(q) ==
    /\ turn[q].pc = "q_tts"
    /\ LET after == tts_all(pending, created, query_tts_texts(turn[q].reply), q)
       IN  /\ pending' = after.pending
           /\ created' = after.created
           /\ turn' = [turn EXCEPT ![q].pc = "u_stat",
                                   ![q].audio_token = LastToken(after.created)]
    /\ UNCHANGED <<call_records, lead_log, gateway_only, ga_only>>

\* update_call_record, utils.py:29-30, called at app.py:213, 221, 305, 313:
\* open(CALL_RECORD_FILE, "r"), which raises without the file, and the
\* fstat of json.load
UpdateStat(q) ==
    /\ turn[q].pc = "u_stat"
    /\ turn' = IF ~wk.exists THEN Failed(q)
               ELSE [turn EXCEPT ![q] =
                        [opened_for_reading(turn[q], call_records)
                            EXCEPT !.pc = "u_read"]]
    /\ UNCHANGED <<pending, created, call_records, lead_log, gateway_only, ga_only>>

\* update_call_record, utils.py:30-41: one read(2) of json.load; with the
\* read that returns nothing json.load parses what it has read and the turn
\* is appended to the copy; an exception ends the turn
UpdateRead(q) ==
    /\ turn[q].pc = "u_read"
    /\ LET me == turn[q]
           got == next_read(me, call_records)
           loaded == json_load(me.buf)
       IN  turn' = IF got # << >> THEN [turn EXCEPT ![q] = after_read(me, got)]
                   ELSE IF ~loaded.ok \/ update_raises(loaded.v, me.session)
                        THEN Reset(Failed(q), q)
                        ELSE [turn EXCEPT ![q] =
                                [closed(me) EXCEPT
                                    !.pc = "u_open",
                                    !.data = update_call_record(
                                                 loaded.v, me.session, me.user_text,
                                                 me.reply, me.escalated, me.phone)]]
    /\ UNCHANGED <<pending, created, call_records, lead_log, gateway_only, ga_only>>

\* update_call_record, utils.py:43-44: open(CALL_RECORD_FILE, "w") empties
\* the file and json.dump hands its chunks to the file object
UpdateOpen(q) ==
    /\ turn[q].pc = "u_open"
    /\ LET mine == opened_for_writing(turn[q], json_dump(turn[q].data))
       IN  turn' = [touched_by(q) EXCEPT
                      ![q] = [mine EXCEPT !.pc = IF Len(mine.out) > 1 THEN "u_dump"
                                                 ELSE "u_close"]]
    /\ call_records' = << >>
    /\ UNCHANGED <<pending, created, lead_log, gateway_only, ga_only>>

\* update_call_record, utils.py:44: a write of the file object that is not
\* its last, at its offset: inside json.dump(data, f, indent=2), or the
\* first of two the close makes
UpdateDump(q) ==
    /\ turn[q].pc = "u_dump"
    /\ LET me == turn[q]
       IN  /\ call_records' = write_at(call_records, me.pos, Head(me.out))
           /\ turn' = [touched_by(q) EXCEPT
                         ![q] = [after_write(me) EXCEPT
                                    !.pc = IF Len(me.out) > 2 THEN "u_dump"
                                           ELSE "u_close"]]
    /\ UNCHANGED <<pending, created, lead_log, gateway_only, ga_only>>

\* the turn after its update_call_record returned: query returns its result
\* (app.py:214-224); generate() goes on to the token and the event of the
\* fixed reply (app.py:306-307) or of each sentence (app.py:316-319)
updated(q) ==
    LET me == closed(turn[q])
    IN  IF me.mode = "query"
        THEN [me EXCEPT !.pc = "done", !.status = 200, !.response = me.reply]
        ELSE [me EXCEPT !.pc = "s_loop",
                        !.todo = IF me.phone # <<>> THEN <<me.reply>>
                                 ELSE stream_tts_texts(me.reply)]

\* update_call_record, utils.py:43-44: the last write of the file object,
\* at its offset, and the function returns
UpdateClose(q) ==
    /\ turn[q].pc = "u_close"
    /\ LET me == turn[q]
       IN  /\ call_records' = write_at(call_records, me.pos, Head(me.out))
           /\ turn' = [touched_by(q) EXCEPT ![q] = updated(q)]
    /\ UNCHANGED <<pending, created, lead_log, gateway_only, ga_only>>

\* query_stream, lines 275-290 and 327-335: the request is checked and
\* transcribed, and the event stream is returned
StreamStart(q, s, has_audio, text) ==
    /\ turn[q].pc = "idle"
    /\ Handled < MaxRequests
    /\ \A p \in Turns : p < q => turn[p].pc # "idle"
    /\ IF s = NoSession \/ ~has_audio
       THEN turn' = [turn EXCEPT ![q] =
                        [NewTurn EXCEPT !.pc = "done", !.mode = "stream", !.session = s,
                                        !.status = 400, !.error = ERR_INVALID]]
       ELSE turn' = [turn EXCEPT ![q] =
                        [NewTurn EXCEPT !.pc = "s_first", !.mode = "stream",
                                        !.session = s, !.user_text = text,
                                        !.status = 200]]
    /\ UNCHANGED <<pending, created, call_records, lead_log, gateway_only, ga_only>>

\* generate(), lines 294-300: the error event, or the transcript event
StreamFirst(q) ==
    /\ turn[q].pc = "s_first"
    /\ IF TooShort(turn[q].user_text)
       THEN turn' = Yield(q, Event("error", ERR_HEAR_STREAM, 0), "done")
       ELSE turn' = [Yield(q, Event("transcript", turn[q].user_text, 0),
                           AfterTranscript("stream", turn[q].user_text))
                       EXCEPT ![q].phone = detect_phone_number(turn[q].user_text)]
    /\ UNCHANGED <<pending, created, call_records, lead_log, gateway_only, ga_only>>

\* generate(), line 302, and utils.py:63-66: get_last_user_query returns
\* None without the file; with the file there, open and the fstat of
\* json.load
StreamPhone(q) ==
    /\ turn[q].pc = "s_phone"
    /\ turn' = [turn EXCEPT ![q] =
                  IF wk.exists
                  THEN [opened_for_reading(turn[q], call_records)
                           EXCEPT !.pc = "p_read"]
                  ELSE [turn[q] EXCEPT !.pc = "lead", !.last = turn[q].user_text]]
    /\ UNCHANGED <<pending, created, call_records, lead_log, gateway_only, ga_only>>

\* generate(), lines 311-312: get_recent_turns and generate_answer
StreamRag(q) ==
    /\ turn[q].pc = "s_rag"
    /\ \E res \in TurnAnswers :
          turn' = [turn EXCEPT ![q].pc = "u_stat", ![q].reply = res[1],
                               ![q].escalated = res[2], ![q].ga_calls = @ + 1]
    /\ UNCHANGED <<pending, created, call_records, lead_log, gateway_only, ga_only>>

\* generate(), lines 306 and 318: generate_tts for the fixed reply, or for the
\* next sentence
StreamSentence(q) ==
    /\ turn[q].pc = "s_loop"
    /\ turn[q].todo # <<>>
    /\ LET after == tts_all(pending, created, <<Head(turn[q].todo)>>, q)
       IN  /\ pending' = after.pending
           /\ created' = after.created
           /\ turn' = [turn EXCEPT ![q].pc = "s_emit",
                                   ![q].audio_token = LastToken(after.created)]
    /\ UNCHANGED <<call_records, lead_log, gateway_only, ga_only>>

\* generate(), lines 307 and 319: the sentence event with its token
StreamEmit(q) ==
    /\ turn[q].pc = "s_emit"
    /\ turn' = [Yield(q, Event("sentence", Head(turn[q].todo), turn[q].audio_token),
                      "s_loop")
                  EXCEPT ![q].todo = Tail(@)]
    /\ UNCHANGED <<pending, created, call_records, lead_log, gateway_only, ga_only>>

\* generate(), lines 308 and 321: the done event
StreamDone(q) ==
    /\ turn[q].pc = "s_loop"
    /\ turn[q].todo = <<>>
    /\ turn' = Yield(q, Event("done", <<>>, 0), "done")
    /\ UNCHANGED <<pending, created, call_records, lead_log, gateway_only, ga_only>>


-----------------------------------------------------------------------------
(***************************************************************************)
(* generate_answer (rag.py:384-480): the fast paths, the context check and *)
(* the credential x model ladder, one attempt per step.                    *)
(***************************************************************************)

\* the number of credentials a deployment may configure (groq_utils.GROQ_KEYS)
NumKeys == 2

\* rag.py:26-29
MODELS == <<"llama-3.1-8b-instant", "llama-3.3-70b-versatile">>

\* rag.py:232-244, in the order of the dict
REPLACEMENTS ==
    <<<<<<"m","e","p","h","e","e">>, <<"f","e","e">>>>,
      <<<<"m","i","f","i">>, <<"f","e","e">>>>,
      <<<<"m","e","f","i">>, <<"f","e","e">>>>,
      <<<<"h","a","r","a","s","s","m","e","n","t">>, <<"h","o","s","t","e","l">>>>,
      <<<<"h","o","s","t","i","l","e">>, <<"h","o","s","t","e","l">>>>,
      <<<<"h","o","t","e","l">>, <<"h","o","s","t","e","l">>>>,
      <<<<"i","s","p"," ">>, <<"I","S","T"," ">>>>,
      <<<<"i","s","d"," ">>, <<"I","S","T"," ">>>>,
      <<<<"i",".","s",".","t">>, <<"I","S","T">>>>,
      <<<<"i","e","s","p">>, <<"I","S","T">>>>,
      <<<<"i",".","e",".","s",".","p">>, <<"I","S","T">>>>>>

\* rag.py:377
THANKS_PHRASES ==
    {<<"t","h","a","n","k">>,
     <<"t","h","a","n","k","s">>,
     <<"t","h","x">>,
     <<"o","k"," ","t","h","a","n","k","s">>,
     <<"o","k","a","y"," ","t","h","a","n","k","s">>,
     <<"t","y"," ">>}

\* rag.py:378-380
COMPLIMENT_PHRASES ==
    {<<"y","o","u","'","r","e"," ","g","o","o","d">>,
     <<"y","o","u","r","e"," ","g","o","o","d">>,
     <<"g","r","e","a","t"," ","j","o","b">>,
     <<"w","e","l","l"," ","d","o","n","e">>,
     <<"y","o","u","'","r","e"," ","h","e","l","p","f","u","l">>,
     <<"y","o","u","r","e"," ","h","e","l","p","f","u","l">>,
     <<"g","o","o","d"," ","j","o","b">>,
     <<"n","i","c","e"," ">>,
     <<"a","w","e","s","o","m","e">>,
     <<"e","x","c","e","l","l","e","n","t">>}

\* rag.py:466
RATE_LIMIT_MARKS ==
    {<<"4","2","9">>,
     <<"r","a","t","e">>,
     <<"q","u","o","t","a">>}

\* rag.py:469
AUTH_MARKS ==
    {<<"4","0","1">>,
     <<"i","n","v","a","l","i","d">>,
     <<"u","n","a","u","t","h","o","r","i","z","e","d">>}

\* the queries generate_answer is called with
GaQueries ==
    {<<"T","h","a","n","k","s"," ","a"," ","l","o","t">>,
     <<"t","h","x">>,
     <<"W","e","l","l"," ","d","o","n","e">>,
     <<"W","h","a","t"," ","i","s"," ","t","h","e"," ","h","o","t","e","l"," ","f","e","e">>,
     <<"o","k"," ","t","h","a","n","k","s"," ","w","h","a","t"," ","i","s"," ","t","h","e"," ","f",
      "e","e">>,
     <<"G","o","o","d","b","y","e">>}

\* what retrieve_context may return (rag.py:410): nothing, blanks, or text
Contexts ==
    {<<>>,
     <<" ","\n">>,
     <<"[","f","e","e",".","t","x","t","]","\n","F","e","e"," ","i","s"," ","1"," ","l","a","k","h",
      ".">>}

\* message.content of a completion (rag.py:453), when it is a string
ReplyContents ==
    {<<>>,
     <<" ","\n">>,
     <<" ","I","t"," ","i","s"," ","1"," ","l","a","k","h","."," ","\n">>,
     <<"S","h","a","r","e"," ","y","o","u","r"," ","p","h","o","n","e"," ","n","u","m","b","e","r",
      ".">>}

\* str(e) of the exceptions an attempt can raise (rag.py:464-465), by what
\* went wrong: the credential is rate limited (HTTP 429)
RateLimitErrors ==
    {<<"E","r","r","o","r"," ","c","o","d","e",":"," ","4","2","9">>,
     <<"R","a","t","e"," ","l","i","m","i","t"," ","r","e","a","c","h","e","d">>,
     <<"Q","u","o","t","a"," ","e","x","c","e","e","d","e","d">>}

\* the credential is rejected (HTTP 401)
AuthErrors ==
    {<<"E","r","r","o","r"," ","c","o","d","e",":"," ","4","0","1">>,
     <<"I","n","v","a","l","i","d"," ","A","P","I"," ","K","e","y">>,
     <<"U","n","a","u","t","h","o","r","i","z","e","d">>}

\* anything else: no connection, or the request is refused for this model
\* (HTTP 400, whose body names the error type invalid_request_error)
OtherErrors ==
    {<<"C","o","n","n","e","c","t","i","o","n"," ","e","r","r","o","r",".">>,
     <<"E","r","r","o","r"," ","c","o","d","e",":"," ","4","0","0"," ","-"," ","i","n","v","a","l",
      "i","d","_","r","e","q","u","e","s","t","_","e","r","r","o","r">>}

ErrorTexts == RateLimitErrors \cup AuthErrors \cup OtherErrors

\* conversation_history (app.py:218, 311): the last turns of the session
Histories ==
    {<< >>,
     <<[user |-> <<"w","h","a","t"," ","i","s"," ","t","h","e"," ","f","e","e">>,
        agent |-> <<"I","t"," ","i","s"," ","1"," ","l","a","k","h",".">>]>>}

\* str.replace(old, new): every non-overlapping occurrence, left to right
RECURSIVE replace_from(_, _, _, _)
replace_from(s, old, new, i) ==
    IF i > Len(s) THEN << >>
    ELSE IF i + Len(old) - 1 <= Len(s) /\ SubSeq(s, i, i + Len(old) - 1) = old
         THEN new \o replace_from(s, old, new, i + Len(old))
         ELSE <<s[i]>> \o replace_from(s, old, new, i + 1)

str_replace(s, old, new) == replace_from(s, old, new, 1)

\* rag.py:246-247: the replacements applied one after the other
RECURSIVE apply_replacements(_, _)
apply_replacements(s, k) ==
    IF k > Len(REPLACEMENTS) THEN s
    ELSE apply_replacements(str_replace(s, REPLACEMENTS[k][1], REPLACEMENTS[k][2]), k + 1)

\* rag.py:231-248
fix_stt_errors(text) == apply_replacements(Lower(text), 1)

\* a variant of is_thanks that takes only a query equal to a phrase
is_thanks_exact(query) == Strip(Lower(query)) \in THANKS_PHRASES

\* rag.py:375-381
is_thanks(query) == \E x \in THANKS_PHRASES : Contains(Strip(Lower(query)), x)

is_compliment(query) == \E x \in COMPLIMENT_PHRASES : Contains(Strip(Lower(query)), x)

\* what one attempt of the ladder produces: a completion whose content is None
\* or a string, or an exception
Outcomes ==
    {[kind |-> "none", text |-> << >>]}
        \cup {[kind |-> "content", text |-> c] : c \in ReplyContents}
        \cup {[kind |-> "error", text |-> e] : e \in ErrorTexts}

\* a variant of reply_missing that only tests `not reply`
reply_falsy(o) == o.kind = "none" \/ o.text = << >>

\* rag.py:454: not reply or not reply.strip()
reply_missing(o) == o.kind = "none" \/ o.text = << >> \/ Strip(o.text) = << >>

\* rag.py:466 and rag.py:469, on str(e).lower()
is_rate_limit(err) == \E m \in RATE_LIMIT_MARKS : Contains(Lower(err), m)

is_auth_error(err) == \E m \in AUTH_MARKS : Contains(Lower(err), m)

\* groq_utils.py:19-26: the index of the credential the client is built with,
\* as a one-element sequence; << >> when the call raises (no credential)
get_client(keys, key_index) == IF keys = 0 THEN << >> ELSE <<key_index % keys>>

\* the local state of a generate_answer call
NewGa ==
    [pc |-> "idle", keys |-> 0, raw |-> << >>, history |-> << >>,
     query |-> << >>, retrieval_query |-> << >>, retrieved |-> 0,
     context |-> << >>, key_idx |-> 0, model_idx |-> 1, attempts |-> << >>,
     reply |-> << >>, escalated |-> FALSE, raised |-> FALSE]

Return(g, reply, escalated) ==
    [g EXCEPT !.pc = "returned", !.reply = reply, !.escalated = escalated]

\* rag.py:384-386: a call, in a deployment with `keys` credentials
GaCall(query, keys, history) ==
    /\ ga.pc = "idle"
    /\ ga' = [NewGa EXCEPT !.pc = "fast", !.keys = keys, !.raw = query,
                           !.history = history,
                           !.query = fix_stt_errors(query)]
    /\ UNCHANGED <<pending, created, gateway_only, turn_only, rc, syn, wk>>

\* rag.py:389-391
GaThanks ==
    /\ ga.pc = "fast"
    /\ is_thanks(ga.query)
    /\ ga' = Return(ga, REPLY_WELCOME, FALSE)
    /\ UNCHANGED <<pending, created, gateway_only, turn_only, rc, syn, wk>>

\* rag.py:392-393
GaCompliment ==
    /\ ga.pc = "fast"
    /\ ~is_thanks(ga.query)
    /\ is_compliment(ga.query)
    /\ ga' = Return(ga, REPLY_THANK_YOU, FALSE)
    /\ UNCHANGED <<pending, created, gateway_only, turn_only, rc, syn, wk>>

\* rag.py:405-406
CONTINUATION_WORDS ==
    {<<"i","t","s">>,
     <<"t","h","e","i","r">>,
     <<"t","h","e","m">>,
     <<"t","h","e","y">>,
     <<"t","h","a","t">>,
     <<"t","h","o","s","e">>,
     <<"i","t">>,
     <<"t","h","i","s">>,
     <<"s","a","m","e">>,
     <<"c","a","n"," ","y","o","u"," ","t","e","l","l">>,
     <<"p","l","e","a","s","e"," ","t","e","l","l">>}

\* rag.py:407: is_continuation
is_continuation(query) == \E w \in CONTINUATION_WORDS : Contains(Lower(query), w)

\* rag.py:397-408: the query retrieve_context is called with: the query, or
\* f"{query} {last_user} {last_agent}" for a continuation of the last turn
retrieval_query(query, history) ==
    IF history # << >> /\ is_continuation(query)
          /\ (history[Len(history)].agent # << >> \/ history[Len(history)].user # << >>)
    THEN query \o <<" ">> \o history[Len(history)].user
               \o <<" ">> \o history[Len(history)].agent
    ELSE query

\* a variant of context_blank that only tests `not context`
context_empty(c) == c = << >>

\* rag.py:412: not context.strip()
context_blank(c) == Strip(c) = << >>

\* rag.py:410-416: retrieve_context, and the reply for a blank context
GaRetrieve ==
    /\ ga.pc = "fast"
    /\ ~is_thanks(ga.query)
    /\ ~is_compliment(ga.query)
    /\ \E c \in Contexts :
          LET g == [ga EXCEPT !.retrieved = @ + 1, !.context = c,
                              !.retrieval_query = retrieval_query(ga.query, ga.history)]
          IN  ga' = IF context_blank(c)
                    THEN Return(g, REPLY_NO_INFO, TRUE)
                    ELSE [g EXCEPT !.pc = "ladder", !.key_idx = 0, !.model_idx = 1]
    /\ UNCHANGED <<pending, created, gateway_only, turn_only, rc, syn, wk>>

\* the ladder position after `continue` (next model, then next credential)
next_model(g) ==
    IF g.model_idx < Len(MODELS)
    THEN [g EXCEPT !.model_idx = @ + 1]
    ELSE [g EXCEPT !.key_idx = @ + 1, !.model_idx = 1]

\* a rate limit that went on to the credential's next model
continue_on_key(g) == next_model(g)

\* the ladder position after `break` (next credential, first model)
next_key(g) == [g EXCEPT !.key_idx = @ + 1, !.model_idx = 1]

\* the ladder has an attempt to make (rag.py:440, 442)
InLadder == ga.pc = "ladder" /\ ga.key_idx < ga.keys

Attempted(g, o) ==
    [g EXCEPT !.attempts = Append(@, [key |-> get_client(g.keys, g.key_idx),
                                      model |-> MODELS[g.model_idx],
                                      outcome |-> o]),
              !.raised = @ \/ get_client(g.keys, g.key_idx) = << >>]

\* rag.py:443-463: the attempt returns a completion
GaAttemptReply ==
    /\ InLadder
    /\ \E o \in {x \in Outcomes : x.kind # "error"} :
          LET g == Attempted(ga, o)
          IN  ga' = IF reply_missing(o)
                    THEN next_model(g)
                    ELSE Return(g, Strip(o.text), is_escalated(Strip(o.text)))
    /\ UNCHANGED <<pending, created, gateway_only, turn_only, rc, syn, wk>>

\* rag.py:464-473: the attempt raises
GaAttemptError ==
    /\ InLadder
    /\ \E o \in {x \in Outcomes : x.kind = "error"} :
          LET g == Attempted(ga, o)
          IN  ga' = IF is_rate_limit(o.text) \/ is_auth_error(o.text)
                    THEN next_key(g)
                    ELSE next_model(g)
    /\ UNCHANGED <<pending, created, gateway_only, turn_only, rc, syn, wk>>

\* rag.py:475-480: the ladder is exhausted
GaExhausted ==
    /\ ga.pc = "ladder"
    /\ ga.key_idx >= ga.keys
    /\ ga' = Return(ga, REPLY_TECHNICAL, TRUE)
    /\ UNCHANGED <<pending, created, gateway_only, turn_only, rc, syn, wk>>

-----------------------------------------------------------------------------
(***************************************************************************)
(* retrieve_context (rag.py:251-372) over an index initialize_rag built.   *)
(* A chunk of the index is its source file and the length of its text; a   *)
(* context is the sequence of the chunks it is joined from.                *)
(***************************************************************************)

\* chunks in the index
MaxDocs == 2

\* rag.py:36
CHUNK_SIZE == 800

\* rag.py:134
MAX_CONTEXT_CHARS == 12000

\* rag.py:272: _get_chunks_from_files stops this far below the budget
FORCED_HEADROOM == 1000

\* rag.py:349
TRUNCATE_RESERVE == 80

\* rag.py:350
MIN_TRUNCATED == 400

\* rag.py:312
top_k == 12

\* rag.py:339: sim_threshold = 0.005; similarities are counted in thousandths
sim_threshold == 5

\* rag.py:275, 357, 361: the delimiter "\n\n---\n\n"
DELIMITER == <<"\n","\n","-","-","-","\n","\n">>

\* rag.py:351: the truncation marker
TRUNCATED_MARK == <<"\n",".",".",".","[","t","r","u","n","c","a","t","e","d","]">>

\* rag.py:139-227: the rules, in order: <<keywords, files>>
KEYWORD_FILE_MAP ==
    <<<<{<<"c","l","o","s","i","n","g"," ","m","e","r","i","t">>,
         <<"l","a","s","t"," ","m","e","r","i","t">>,
         <<"l","a","s","t"," ","y","e","a","r"," ","m","e","r","i","t">>,
         <<"l","a","s","t"," ","y","e","a","r"," ","c","l","o","s","i","n","g">>,
         <<"p","r","e","v","i","o","u","s"," ","m","e","r","i","t">>,
         <<"c","l","o","s","i","n","g"," ","a","g","g","r","e","g","a","t","e">>,
         <<"w","h","a","t"," ","w","a","s"," ","m","e","r","i","t">>,
         <<"m","e","r","i","t"," ","h","i","s","t","o","r","y">>,
         <<"m","e","r","i","t"," ","2","0","2","4">>,
         <<"m","e","r","i","t"," ","2","0","2","3">>},
        <<"CLOSING_MERIT_HISTORY.txt", "RAG_QUICK_REF.txt">>>>,
      <<{<<"f","e","e"," ","s","t","r","u","c","t","u","r","e">>,
         <<"f","e","e"," ","o","f">>,
         <<"f","e","e","s"," ","o","f">>,
         <<"f","e","e"," ","f","o","r">>,
         <<"f","e","e","s"," ","f","o","r">>,
         <<"t","u","i","t","i","o","n"," ","f","e","e">>,
         <<"s","e","m","e","s","t","e","r"," ","f","e","e">>,
         <<"h","o","w"," ","m","u","c","h"," ","f","e","e">>,
         <<"f","e","e"," ","a","v","i","o","n","i","c","s">>,
         <<"f","e","e"," ","a","e","r","o","s","p","a","c","e">>,
         <<"f","e","e"," ","e","l","e","c","t","r","i","c","a","l">>,
         <<"f","e","e"," ","m","e","c","h","a","n","i","c","a","l">>,
         <<"f","e","e"," ","c","o","m","p","u","t","e","r">>,
         <<"f","e","e"," ","s","p","a","c","e">>,
         <<"f","e","e"," ","m","a","t","h","e","m","a","t","i","c","s">>,
         <<"f","e","e"," ","p","h","y","s","i","c","s">>,
         <<"f","e","e"," ","b","i","o","t","e","c","h","n","o","l","o","g","y">>,
         <<"f","e","e"," ","m","a","t","e","r","i","a","l","s">>,
         <<"f","e","e"," ","s","o","f","t","w","a","r","e">>,
         <<"c","o","s","t"," ","o","f">>,
         <<"c","h","a","r","g","e","s">>},
        <<"FEE_STRUCTURE.txt", "RAG_QUICK_REF.txt">>>>,
      <<{<<"p","r","o","g","r","a","m","s"," ","u","n","d","e","r">>,
         <<"p","r","o","g","r","a","m"," ","u","n","d","e","r">>,
         <<"p","r","o","g","r","a","m","s"," ","o","f","f","e","r","e","d">>,
         <<"p","r","o","g","r","a","m","s"," ","i","n">>,
         <<"o","f","f","e","r","e","d"," ","b","y">>,
         <<"o","f","f","e","r","e","d"," ","u","n","d","e","r">>,
         <<"d","e","p","a","r","t","m","e","n","t"," ","o","f","f","e","r">>,
         <<"d","e","p","a","r","t","m","e","n","t"," ","p","r","o","g","r","a","m","s">>,
         <<"w","h","a","t"," ","p","r","o","g","r","a","m","s">>,
         <<"w","h","i","c","h"," ","p","r","o","g","r","a","m","s">>,
         <<"c","o","u","r","s","e","s"," ","u","n","d","e","r">>,
         <<"u","n","d","e","r"," ","m","e","c","h","a","n","i","c","a","l">>,
         <<"u","n","d","e","r"," ","e","l","e","c","t","r","i","c","a","l">>,
         <<"u","n","d","e","r"," ","a","v","i","o","n","i","c","s">>,
         <<"u","n","d","e","r"," ","a","e","r","o","s","p","a","c","e">>,
         <<"u","n","d","e","r"," ","c","o","m","p","u","t","i","n","g">>,
         <<"u","n","d","e","r"," ","m","a","t","e","r","i","a","l","s">>,
         <<"u","n","d","e","r"," ","s","p","a","c","e">>},
        <<"IST_DEPARTMENTS_AND_PROGRAMS_SUMMARY.txt", "RAG_QUICK_REF.txt", "ELECTRICAL_DEPARTMENT_PROGRAMS.txt">>>>,
      <<{<<"a","d","m","i","s","s","i","o","n"," ","o","p","e","n">>,
         <<"a","d","m","i","s","s","i","o","n","s"," ","o","p","e","n">>,
         <<"w","h","e","n"," ","d","o"," ","a","d","m","i","s","s","i","o","n">>,
         <<"l","a","s","t"," ","d","a","t","e">>,
         <<"l","a","s","t"," ","d","a","t","e"," ","t","o"," ","a","p","p","l","y">>,
         <<"a","d","m","i","s","s","i","o","n"," ","c","l","o","s","e">>,
         <<"a","d","m","i","s","s","i","o","n"," ","d","e","a","d","l","i","n","e">>,
         <<"w","h","e","n"," ","t","o"," ","a","p","p","l","y">>,
         <<"a","p","p","l","i","c","a","t","i","o","n"," ","d","e","a","d","l","i","n","e">>,
         <<"a","d","m","i","s","s","i","o","n"," ","d","a","t","e">>,
         <<"w","h","e","n"," ","s","t","a","r","t"," ","a","d","m","i","s","s","i","o","n">>,
         <<"w","h","e","n"," ","o","p","e","n"," ","a","d","m","i","s","s","i","o","n">>},
        <<"ADMISSION_DATES_AND_STATUS.txt", "ADMISSION_INFO.txt">>>>,
      <<{<<"c","a","l","c","u","l","a","t","e"," ","m","e","r","i","t">>,
         <<"c","a","l","c","u","l","a","t","e"," ","a","g","g","r","e","g","a","t","e">>,
         <<"m","y"," ","a","g","g","r","e","g","a","t","e">>,
         <<"m","y"," ","m","e","r","i","t">>,
         <<"w","i","l","l"," ","i"," ","g","e","t"," ","a","d","m","i","s","s","i","o","n">>,
         <<"w","h","a","t"," ","i","s"," ","a","g","g","r","e","g","a","t","e">>,
         <<"a","g","g","r","e","g","a","t","e"," ","f","o","r","m","u","l","a">>,
         <<"m","e","r","i","t"," ","f","o","r","m","u","l","a">>,
         <<"m","e","r","i","t"," ","c","a","l","c","u","l","a","t","i","o","n">>,
         <<"c","a","l","c","u","l","a","t","e"," ","m","y">>},
        <<"MERIT_CRITERIA_AND_AGGREGATE.txt">>>>,
      <<{<<"t","r","a","n","s","p","o","r","t">>,
         <<"b","u","s">>,
         <<"s","h","u","t","t","l","e">>,
         <<"p","i","c","k"," ","a","n","d"," ","d","r","o","p">>,
         <<"r","o","u","t","e">>},
        <<"TRANSPORT_HOSTEL_FAQS.txt">>>>,
      <<{<<"h","o","s","t","e","l">>,
         <<"a","c","c","o","m","m","o","d","a","t","i","o","n">>,
         <<"b","o","a","r","d","i","n","g">>,
         <<"d","o","r","m">>,
         <<"r","o","o","m">>,
         <<"s","t","a","y"," ","o","n"," ","c","a","m","p","u","s">>},
        <<"TRANSPORT_HOSTEL_FAQS.txt", "ADMISSION_FAQS_COMPLETE.txt">>>>,
      <<{<<"e","l","i","g","i","b","l","e">>,
         <<"e","l","i","g","i","b","i","l","i","t","y">>,
         <<"c","a","n"," ","i"," ","a","p","p","l","y">>,
         <<"w","h","o"," ","c","a","n"," ","a","p","p","l","y">>,
         <<"p","r","e","-","m","e","d","i","c","a","l">>,
         <<"p","r","e"," ","m","e","d","i","c","a","l">>,
         <<"i","c","s"," ","s","t","u","d","e","n","t">>,
         <<"d","a","e">>,
         <<"a","-","l","e","v","e","l">>,
         <<"a"," ","l","e","v","e","l">>,
         <<"o","-","l","e","v","e","l">>,
         <<"o"," ","l","e","v","e","l">>},
        <<"PROGRAMS_ELIGIBILITY_WHATSAPP_SEATS.txt", "ADMISSION_FAQS_COMPLETE.txt">>>>,
      <<{<<"d","i","p","l","o","m","a">>,
         <<"d","i","p","l","o","m","a","s">>},
        <<"PROGRAMS_ELIGIBILITY_WHATSAPP_SEATS.txt", "IST_DEPARTMENTS_AND_PROGRAMS_SUMMARY.txt">>>>,
      <<{<<"f","o","r","e","i","g","n">>,
         <<"i","n","t","e","r","n","a","t","i","o","n","a","l"," ","s","t","u","d","e","n","t">>,
         <<"o","v","e","r","s","e","a","s">>,
         <<"n","o","n","-","p","a","k","i","s","t","a","n","i">>,
         <<"o","t","h","e","r"," ","c","o","u","n","t","r","y">>,
         <<"f","r","o","m"," ","a","b","r","o","a","d">>,
         <<"s","t","u","d","y"," ","i","n"," ","p","a","k","i","s","t","a","n">>},
        <<"FOREIGN_ADMISSION.txt">>>>,
      <<{<<"s","c","h","o","l","a","r","s","h","i","p">>,
         <<"f","i","n","a","n","c","i","a","l"," ","a","i","d">>,
         <<"n","e","e","d"," ","b","a","s","e","d">>,
         <<"m","e","r","i","t"," ","b","a","s","e","d"," ","s","c","h","o","l","a","r","s","h","i","p">>,
         <<"h","o","n","h","a","a","r">>,
         <<"p","e","e","f">>,
         <<"f","e","e"," ","w","a","i","v","e","r">>},
        <<"ADMISSION_FAQS_COMPLETE.txt", "TRANSPORT_HOSTEL_FAQS.txt">>>>,
      <<{<<"c","h","a","l","l","a","n">>,
         <<"f","e","e"," ","s","u","b","m","i","s","s","i","o","n">>,
         <<"l","a","s","t"," ","d","a","t","e"," ","t","o"," ","s","u","b","m","i","t"," ","f","e","e">>,
         <<"s","u","b","m","i","t"," ","f","e","e">>,
         <<"f","e","e"," ","d","e","a","d","l","i","n","e">>,
         <<"c","h","a","l","l","a","n"," ","d","e","a","d","l","i","n","e">>},
        <<"ANNOUNCEMENTS.txt", "FEE_STRUCTURE.txt">>>>,
      <<{<<"s","p","a","c","e"," ","s","c","i","e","n","c","e"," ","m","e","r","i","t">>,
         <<"s","p","a","c","e"," ","s","c","i","e","n","c","e"," ","c","l","o","s","i","n","g">>,
         <<"m","e","r","i","t"," ","s","p","a","c","e"," ","s","c","i","e","n","c","e">>,
         <<"b","s"," ","s","p","a","c","e"," ","s","c","i","e","n","c","e"," ","m","e","r","i","t">>},
        <<"CLOSING_MERIT_HISTORY.txt", "RAG_QUICK_REF.txt">>>>>>

\* the queries retrieve_context is called with
RcQueries ==
    {<<"W","h","a","t"," ","i","s"," ","t","h","e"," ","f","e","e"," ","f","o","r"," ","a","v","i",
      "o","n","i","c","s">>,
     <<"b","u","s"," ","t","i","m","i","n","g">>,
     <<"h","o","s","t","e","l"," ","c","h","a","r","g","e","s">>,
     <<"T","e","l","l"," ","m","e"," ","a","b","o","u","t"," ","t","h","e"," ","c","a","m","p","u",
      "s">>}

\* the files of the data folder in this model: two that rules name, one that
\* no rule names
IndexFiles == {"FEE_STRUCTURE.txt", "TRANSPORT_HOSTEL_FAQS.txt", "CAMPUS_LIFE.txt"}

\* the lengths of a chunk's text (rag.py:40-63: at least 1, at most CHUNK_SIZE
\* for a .txt file)
DocLens == {1, CHUNK_SIZE}

\* load_documents appends the chunks of one file after those of another
\* (rag.py:75-103): the chunks of a file are next to each other
FileByFile(docs) ==
    \A i, j, k \in 1..Len(docs) :
        (i < j /\ j < k /\ docs[i].name = docs[k].name) => docs[j].name = docs[i].name

\* the short indexes: up to MaxDocs chunks of any file and length
ShortIndexes ==
    {docs \in UNION {[1..n -> [name : IndexFiles, len : DocLens]] : n \in 0..MaxDocs} :
        FileByFile(docs)}

\* the chunks of the long file of a long index
LongRun == 14

\* a chunk length that brings two ranked chunks within a delimiter of the
\* budget once the long file is injected
NearBudgetLen == 605

\* the long indexes: a fee document of LongRun full chunks, more than the
\* forced injection takes, before or after two chunks of the campus document
LongIndexes ==
    LET long == [i \in 1..LongRun |-> [name |-> "FEE_STRUCTURE.txt", len |-> CHUNK_SIZE]]
        tails == [1..2 -> [name : {"CAMPUS_LIFE.txt"}, len : {NearBudgetLen, CHUNK_SIZE}]]
    IN  {long \o tail : tail \in tails} \cup {tail \o long : tail \in tails}

\* documents / doc_names after load_documents (rag.py:66-109)
Indexes == ShortIndexes \cup LongIndexes

\* cosine similarities, in thousandths: none, at the threshold, above it
SimScores == {0, sim_threshold, sim_threshold + 1}

\* similarities.argsort()[-top_k:][::-1] (rag.py:332): the top_k chunks by
\* score descending; chunks of equal score in any order
Rankings(sims) ==
    LET n == Len(sims)
        perms == {p \in [1..n -> 1..n] :
                     /\ \A i, j \in 1..n : i # j => p[i] # p[j]
                     /\ \A i, j \in 1..n : i < j => sims[p[i]] >= sims[p[j]]}
    IN  {SubSeq(p, 1, IF n < top_k THEN n ELSE top_k) : p \in perms}

\* the files with more chunks than a short index holds
LongFiles(docs) ==
    {f \in IndexFiles : Cardinality({i \in 1..Len(docs) : docs[i].name = f}) > MaxDocs}

\* the similarities of a query to the chunks (rag.py:331): any score on each
\* chunk, but one score for all the chunks of a long file
SimsFor(docs) ==
    LET free == {i \in 1..Len(docs) : docs[i].name \notin LongFiles(docs)}
    IN  {[i \in 1..Len(docs) |-> IF i \in free THEN t[i] ELSE a] :
            a \in SimScores, t \in [free -> SimScores]}

\* the chunks by score descending, chunks of equal score by index, ascending
\* or descending
Sorted(sims, ascending) ==
    LET n == Len(sims)
        before(j, i) == \/ sims[j] > sims[i]
                        \/ sims[j] = sims[i] /\ (IF ascending THEN j < i ELSE j > i)
        place(i) == 1 + Cardinality({j \in 1..n : before(j, i)})
    IN  [r \in 1..n |-> CHOOSE i \in 1..n : place(i) = r]

\* top_indices (rag.py:332): every order argsort can give on a short index,
\* the two orders of Sorted on a long one
RankingsFor(sims) ==
    IF Len(sims) <= MaxDocs THEN Rankings(sims)
    ELSE {SubSeq(Sorted(sims, asc), 1, IF Len(sims) < top_k THEN Len(sims) ELSE top_k) :
             asc \in BOOLEAN}

\* the files of `files` not yet in `acc`, appended in order (rag.py:257-260)
RECURSIVE add_files(_, _, _)
add_files(acc, files, i) ==
    IF i > Len(files) THEN acc
    ELSE add_files(IF files[i] \in Range(acc) THEN acc ELSE Append(acc, files[i]),
                   files, i + 1)

\* rag.py:251-261: _get_forced_files_for_query, from rule k on
RECURSIVE forced_from(_, _, _)
forced_from(query_lower, k, acc) ==
    IF k > Len(KEYWORD_FILE_MAP) THEN acc
    ELSE forced_from(query_lower, k + 1,
                     IF \E kw \in KEYWORD_FILE_MAP[k][1] : Contains(query_lower, kw)
                     THEN add_files(acc, KEYWORD_FILE_MAP[k][2], 1)
                     ELSE acc)

get_forced_files_for_query(query_lower) == forced_from(query_lower, 1, << >>)

\* len(f"[{name}]\n{documents[idx]}") (rag.py:271, 347)
chunk_len(doc) == Len(doc.name) + 3 + doc.len

\* a chunk as a part of a context
Part(docs, idx) ==
    [doc |-> idx, name |-> docs[idx].name, len |-> chunk_len(docs[idx]),
     truncated |-> FALSE]

\* len("\n\n---\n\n".join(parts))
RECURSIVE sum_len(_, _)
sum_len(parts, i) == IF i > Len(parts) THEN 0 ELSE parts[i].len + sum_len(parts, i + 1)

joined_len(parts) ==
    IF parts = << >> THEN 0 ELSE sum_len(parts, 1) + Len(DELIMITER) * (Len(parts) - 1)

\* rag.py:264-275: _get_chunks_from_files, from chunk idx on
RECURSIVE chunks_from(_, _, _, _, _)
chunks_from(docs, file_set, idx, parts, total) ==
    IF idx > Len(docs) THEN parts
    ELSE IF docs[idx].name \in file_set
              /\ total + chunk_len(docs[idx]) + FORCED_HEADROOM <= MAX_CONTEXT_CHARS
         THEN chunks_from(docs, file_set, idx + 1, Append(parts, Part(docs, idx)),
                          total + chunk_len(docs[idx]))
         ELSE chunks_from(docs, file_set, idx + 1, parts, total)

get_chunks_from_files(docs, filenames) ==
    chunks_from(docs, Range(filenames), 1, << >>, 0)

\* rag.py:342: a chunk is skipped unless its similarity exceeds the threshold
above_threshold(score) == score > sim_threshold

\* rag.py:341-355: the ranking loop, from position i of top_indices on
RECURSIVE rank_from(_, _, _, _, _, _, _)
rank_from(docs, sims, order, i, forced_set, parts, total) ==
    IF i > Len(order) THEN parts
    ELSE LET idx == order[i]
             len == chunk_len(docs[idx])
         IN  IF ~above_threshold(sims[idx]) \/ docs[idx].name \in forced_set
             THEN rank_from(docs, sims, order, i + 1, forced_set, parts, total)
             ELSE IF total + len > MAX_CONTEXT_CHARS
                  THEN IF MAX_CONTEXT_CHARS > total + TRUNCATE_RESERVE + MIN_TRUNCATED
                       THEN Append(parts,
                                [doc |-> idx, name |-> docs[idx].name,
                                 len |-> (MAX_CONTEXT_CHARS - total - TRUNCATE_RESERVE)
                                            + Len(TRUNCATED_MARK),
                                 truncated |-> TRUE])
                       ELSE parts
                  ELSE rank_from(docs, sims, order, i + 1, forced_set,
                                 Append(parts, Part(docs, idx)), total + len)

\* rag.py:312-372: retrieve_context; the context is forced parts then ranked
\* parts, << >> for ""
retrieve_context(index, query, sims, order) ==
    IF ~index.fitted THEN << >>
    ELSE LET forced_files == get_forced_files_for_query(Lower(query))
             forced == IF forced_files # << >>
                       THEN get_chunks_from_files(index.docs, forced_files)
                       ELSE << >>
             ranked == rank_from(index.docs, sims, order, 1, Range(forced_files),
                                 << >>, joined_len(forced))
         IN  forced \o ranked

\* the state of the retriever: the index, and the last retrieve_context call
NewRc ==
    [pc |-> "unloaded", docs |-> << >>, fitted |-> FALSE, query |-> << >>,
     sims |-> << >>, order |-> << >>, context |-> << >>]

\* rag.py:112-129 and app.py:36-40: initialize_rag loads the chunks and fits
\* the vectorizer; with no chunk, or when the fit raises, there is no vectorizer
InitializeRag(docs, fit_ok) ==
    /\ rc.pc = "unloaded"
    /\ rc' = [rc EXCEPT !.pc = "ready", !.docs = docs,
                        !.fitted = (docs # << >> /\ fit_ok)]
    /\ UNCHANGED <<pending, created, gateway_only, turn_only, ga, syn, wk>>

\* a retrieve_context call
RetrieveContext(query, sims, order) ==
    /\ rc.pc = "ready"
    /\ rc' = [rc EXCEPT !.pc = "retrieved", !.query = query, !.sims = sims,
                        !.order = order,
                        !.context = retrieve_context(rc, query, sims, order)]
    /\ UNCHANGED <<pending, created, gateway_only, turn_only, ga, syn, wk>>

-----------------------------------------------------------------------------
(***************************************************************************)
(* tts.py: one synthesis.  stream_tts_chunks starts a thread that collects *)
(* the engine's chunks and forwards them until the thread is done or 25 s  *)
(* have passed; get_full_audio_bytes joins what it forwards.  The model    *)
(* runs two calls on one text side by side, the chunked reply of a non-iOS *)
(* fetch and the buffered reply of an iOS fetch, against one engine run    *)
(* that does the same thing at the same moment in both, and a duplicate    *)
(* iOS fetch that waits for the buffered reply to reach the cache.         *)
(***************************************************************************)

\* the most chunks the engine produces for the text
SynChunks == 2

\* the bytes the engine would produce, chunk by chunk
SynAudio == [i \in 1..SynChunks |-> <<2 * i - 1, 2 * i>>]

Consumers == {"stream", "buffer"}

\* A double between 0 and 16 is the pair <<hi, lo>> of 30-bit limbs that
\* stands for (hi * 2^30 + lo) * 2^-55; every double of that range with a
\* value of 0.125 or more is such a pair.
Limb == 2^30

RECURSIVE bit_length(_)
bit_length(n) == IF n = 0 THEN 0 ELSE 1 + bit_length(n \div 2)

\* the sum without rounding
exact_add(a, b) ==
    LET lo_sum == a[2] + b[2]
    IN  <<a[1] + b[1] + lo_sum \div Limb, lo_sum % Limb>>

\* tts.py:77: elapsed += step, the sum rounded to 53 significant bits, to the
\* nearest and on a tie to the even one
double_add(a, b) ==
    LET sum == exact_add(a, b)
        hi == sum[1]
        lo == sum[2]
        quantum == IF hi >= 2^23 THEN 2^(bit_length(hi) - 23) ELSE 1
        rest == lo % quantum
        down == lo - rest
        up == \/ 2 * rest > quantum
              \/ 2 * rest = quantum /\ (down \div quantum) % 2 = 1
        rounded == IF up THEN down + quantum ELSE down
    IN  IF rounded >= Limb THEN <<hi + 1, rounded - Limb>> ELSE <<hi, rounded>>

\* tts.py:72: elapsed < timeout
double_less(a, b) == a[1] < b[1] \/ (a[1] = b[1] /\ a[2] < b[2])

\* tts.py:70: step = 0.2, the double 0x1.999999999999ap-3
step == <<6710886, 429496730>>

\* tts.py:68: timeout = 15.0
timeout == <<503316480, 0>>

\* tts.py:152: buf.write(chunk)
buf_write(buf, chunk) == buf \o chunk

\* tts.py:129: time.time() < deadline is false once the deadline has passed
never_reached(expired) == FALSE

deadline_reached(expired) == expired

\* the locals of one running stream_tts_chunks generator
NewConsumer == [pc |-> "check", idx |-> 0, out |-> << >>, broke |-> FALSE,
                status |-> 0, body |-> << >>]

\* the state after t.start() and deadline = time.time() + 25 in both calls
\* (tts.py:124-128), with the duplicate fetch at the top of its wait
NewSyn ==
    [chunks |-> << >>, done_flag |-> FALSE, error_flag |-> FALSE,
     expired |-> FALSE, in_time |-> FALSE,
     stream |-> NewConsumer, buffer |-> NewConsumer,
     buf |-> << >>, cached |-> << >>,
     wait |-> [pc |-> "poll", elapsed |-> <<0, 0>>, sleeps |-> 0,
               status |-> 0, body |-> << >>]]

\* tts.py:113-115: the engine hands over one more audio chunk
EngineChunk ==
    /\ ~syn.done_flag /\ ~syn.error_flag
    /\ Len(syn.chunks) < SynChunks
    /\ syn' = [syn EXCEPT !.chunks = Append(@, SynAudio[Len(@) + 1])]
    /\ UNCHANGED <<pending, created, gateway_only, turn_only, ga, rc, wk>>

\* tts.py:116-117: the engine raises and the error is noted
EngineRaise ==
    /\ ~syn.done_flag /\ ~syn.error_flag
    /\ syn' = [syn EXCEPT !.error_flag = TRUE]
    /\ UNCHANGED <<pending, created, gateway_only, turn_only, ga, rc, wk>>

\* tts.py:118-119: the collecting coroutine ends, after the last chunk or
\* after the error; in_time records whether that was before the deadline
EngineFinish ==
    /\ ~syn.done_flag
    /\ syn' = [syn EXCEPT !.done_flag = TRUE, !.in_time = ~syn.expired]
    /\ UNCHANGED <<pending, created, gateway_only, turn_only, ga, rc, wk>>

\* the clock reaches the deadline of tts.py:128
DeadlinePasses ==
    /\ ~syn.expired
    /\ syn' = [syn EXCEPT !.expired = TRUE]
    /\ UNCHANGED <<pending, created, gateway_only, turn_only, ga, rc, wk>>

\* tts.py:130-132 and 134-136: yield chunks[idx]; idx += 1.  The buffered
\* call writes what it is handed to its buffer (tts.py:151-152)
yield_chunk(s, c) ==
    LET chunk == s.chunks[s[c].idx + 1]
        forwarded == [s EXCEPT ![c].out = Append(@, chunk), ![c].idx = @ + 1]
    IN  IF c = "buffer"
        THEN [forwarded EXCEPT !.buf = buf_write(@, chunk)]
        ELSE forwarded

\* tts.py:129: the test of the outer loop
ConsumerCheck(c) ==
    /\ syn[c].pc = "check"
    /\ syn' = [syn EXCEPT ![c].pc = IF deadline_reached(syn.expired)
                                    THEN "ended" ELSE "drain"]
    /\ UNCHANGED <<pending, created, gateway_only, turn_only, ga, rc, wk>>

\* tts.py:130-132: forward what has arrived, one chunk a step
ConsumerDrain(c) ==
    /\ syn[c].pc = "drain"
    /\ syn' = IF syn[c].idx < Len(syn.chunks)
              THEN yield_chunk(syn, c)
              ELSE [syn EXCEPT ![c].pc = "test"]
    /\ UNCHANGED <<pending, created, gateway_only, turn_only, ga, rc, wk>>

\* tts.py:133: if done_flag[0]
ConsumerTest(c) ==
    /\ syn[c].pc = "test"
    /\ syn' = [syn EXCEPT ![c].pc = IF syn.done_flag THEN "final" ELSE "sleep"]
    /\ UNCHANGED <<pending, created, gateway_only, turn_only, ga, rc, wk>>

\* tts.py:134-137: forward what arrived since, then break
ConsumerFinal(c) ==
    /\ syn[c].pc = "final"
    /\ syn' = IF syn[c].idx < Len(syn.chunks)
              THEN yield_chunk(syn, c)
              ELSE [syn EXCEPT ![c].pc = "ended", ![c].broke = TRUE]
    /\ UNCHANGED <<pending, created, gateway_only, turn_only, ga, rc, wk>>

\* tts.py:138: time.sleep(0.02)
ConsumerSleep(c) ==
    /\ syn[c].pc = "sleep"
    /\ syn' = [syn EXCEPT ![c].pc = "check"]
    /\ UNCHANGED <<pending, created, gateway_only, turn_only, ga, rc, wk>>

\* app.py:131-147: the chunked reply is a 200 whose body is what the
\* generator forwarded
ChunkedRespond ==
    /\ syn.stream.pc = "ended"
    /\ syn' = [syn EXCEPT !.stream.pc = "responded", !.stream.status = 200,
                          !.stream.body = syn.stream.out]
    /\ UNCHANGED <<pending, created, gateway_only, turn_only, ga, rc, wk>>

\* app.py:112 and 115: get_full_audio_bytes returned some bytes and
\* _set_ios_cached(token, audio_bytes) stores them; the reply comes after
BufferedStore ==
    /\ syn.buffer.pc = "ended"
    /\ syn.buf # << >>
    /\ syn' = [syn EXCEPT !.buffer.pc = "stored", !.cached = syn.buf]
    /\ UNCHANGED <<pending, created, gateway_only, turn_only, ga, rc, wk>>

\* app.py:112-114 and 116-124: the buffered reply: no byte is a 500, the
\* bytes that were stored are sent with a 200
BufferedRespond ==
    /\ \/ syn.buffer.pc = "ended" /\ syn.buf = << >>
       \/ syn.buffer.pc = "stored"
    /\ syn' = IF syn.buf = << >>
              THEN [syn EXCEPT !.buffer.pc = "responded", !.buffer.status = 500]
              ELSE [syn EXCEPT !.buffer.pc = "responded", !.buffer.status = 200,
                               !.buffer.body = syn.buf]
    /\ UNCHANGED <<pending, created, gateway_only, turn_only, ga, rc, wk>>

\* tts.py:72-78 and app.py:91-103: one turn of the loop of
\* _wait_for_ios_cache, and the reply of the duplicate fetch when it returns
WaitForIosCache ==
    /\ syn.wait.pc = "poll"
    /\ syn' = IF double_less(syn.wait.elapsed, timeout)
              THEN IF syn.cached # << >>
                   THEN [syn EXCEPT !.wait.pc = "responded", !.wait.status = 200,
                                    !.wait.body = syn.cached]
                   ELSE [syn EXCEPT !.wait.elapsed = double_add(@, step),
                                    !.wait.sleeps = @ + 1]
              ELSE [syn EXCEPT !.wait.pc = "responded", !.wait.status = 404]
    /\ UNCHANGED <<pending, created, gateway_only, turn_only, ga, rc, wk>>

-----------------------------------------------------------------------------
(***************************************************************************)
(* utils.py: the call-record store under concurrent requests.  Each of     *)
(* init_call_record, update_call_record and end_call_record reads the      *)
(* whole file, changes its copy and writes the whole file back; no lock is *)
(* taken (log_lock of app.py:34 is never acquired).  A worker is a request *)
(* thread inside one of the three functions, or on the phone-number path   *)
(* of a turn.  json.load is an fstat and one read after the other;         *)
(* open(CALL_RECORD_FILE, "w") empties the file at once and the file       *)
(* object writes the text in one piece or in several: in between the file  *)
(* is not JSON, a reader gets bytes of different texts, and two writers    *)
(* that hold the file open together write over each other.                 *)
(***************************************************************************)

\* the request threads
NumWorkers == 2

\* the calls each thread makes
MaxOps == 2

\* the phone-number turns of one run
MaxPhones == 1

\* the sessions start_call can create
NumRecSessions == 2

Workers == 1..NumWorkers

RecSessions == 1..NumRecSessions

\* utils.py:50: data[session_id]["end_time"] = ... raises without a record
\* of the session, and when the data or the record is no dict
end_raises(data, s) ==
    ~ /\ data.t = "obj" /\ has(data, session_key(s))
      /\ get(data, session_key(s)).t = "obj"

\* utils.py:46-53: end_call_record stamps the record of the session
end_call_record(data, s) ==
    put(data, session_key(s),
        put(get(data, session_key(s)), K_END_TIME, Str(CLOCK_TEXT)))

\* utils.py:18, 32, 50: the function called raises on what json.load
\* returned
call_raises(w, data) ==
    CASE w.op = "init" -> init_raises(data)
      [] w.op \in {"update", "phone"} -> update_raises(data, w.session)
      [] w.op = "end" -> end_raises(data, w.session)

\* the number a caller gives on the phone-number path
LeadPhone == <<"0","3","0","0","1","2","3","4","5","6","7">>

\* the user text of the n-th call of thread w: w,n
call_text(w, n) == <<digit(w), ",", digit(n)>>

\* what the function called writes back, from the copy json.load returned
written(w, data) ==
    CASE w.op = "init" -> init_call_record(data, w.session)
      [] w.op = "update" ->
            update_call_record(data, w.session, w.user, ModelReply, FALSE, << >>)
      [] w.op = "phone" ->
            update_call_record(data, w.session, w.user, REPLY_PHONE, TRUE, LeadPhone)
      [] w.op = "end" -> end_call_record(data, w.session)

\* the locals of a request thread: buf the bytes json.load has read so far,
\* into a buffer of bufsize bytes; data the changed copy of what it
\* returned; out the writes the file object has still to make and pos its
\* offset; clobbered whether another thread emptied the records file, or
\* wrote into it, since this one began to read it or opened it for writing;
\* stream whether the turn is one of query_stream; earlier the user text of
\* the last turn completed for the session when the query of the lead was
\* read, and whole whether the file was at rest then
NewWorker == [pc |-> "idle", op |-> "none", session |-> 0, user |-> << >>,
              data |-> None, buf |-> << >>, bufsize |-> 0, out |-> << >>,
              pos |-> 0, clobbered |-> FALSE, ops |-> 0,
              creating |-> FALSE, stream |-> FALSE,
              last |-> << >>, earlier |-> << >>, whole |-> FALSE]

\* the thread once its handler has returned: its locals are gone, the number
\* of calls it has made is kept
left(me) == [NewWorker EXCEPT !.ops = me.ops]

\* the thread enters one of the three functions
Called(me, op, s, user) ==
    [NewWorker EXCEPT !.pc = "stat", !.op = op, !.session = s, !.user = user,
                      !.ops = me.ops + 1]

\* no call in progress; the directory logs/ and the file do not exist yet;
\* the history holds the sessions whose init has begun and has returned,
\* the turns whose update has returned, in that order, whether a call ever
\* read the file while another was between its read and its return, and
\* for every lead what was known when its query was read, and the number of
\* phone-number turns begun
NewWk == [worker |-> [w \in Workers |-> NewWorker],
          logs |-> FALSE, exists |-> FALSE,
          begun |-> {}, inited |-> {}, completed |-> << >>,
          overlapped |-> FALSE, leads |-> << >>, phones |-> 0]

\* the user texts of the turns completed for session s, in completion order
RECURSIVE CompletedFor(_, _)
CompletedFor(done, s) ==
    IF done = << >> THEN << >>
    ELSE IF Head(done).session = s
         THEN <<Head(done).user>> \o CompletedFor(Tail(done), s)
         ELSE CompletedFor(Tail(done), s)

\* the user text of the last of them, << >> when there is none
LastCompleted(done, s) ==
    IF CompletedFor(done, s) = << >> THEN << >>
    ELSE CompletedFor(done, s)[Len(CompletedFor(done, s))]

\* another thread is between the fstat of its json.load and its return
OtherInFlight(w) ==
    \E o \in Workers \ {w} : wk.worker[o].pc \in {"read", "write", "dump", "close"}

\* another thread holds the file open for writing, with writes to make
OtherWriting(w) ==
    \E o \in Workers \ {w} : wk.worker[o].pc \in {"dump", "close"}

\* the workers once thread w has emptied the records file or written into
\* it: every other thread that reads it, or holds it open, is no longer
\* alone with it
touched(w) ==
    [o \in Workers |->
        IF o # w /\ wk.worker[o].pc \in {"read", "last", "dump", "close"}
        THEN [wk.worker[o] EXCEPT !.clobbered = TRUE]
        ELSE wk.worker[o]]

\* app.py:153-155 and utils.py:10: start_call names a fresh session (uuid4)
\* and calls init_call_record, which makes the directory
InitBegin(w, s) ==
    /\ wk.worker[w].pc = "idle" /\ wk.worker[w].ops < MaxOps
    /\ s \in uuid4(wk.begun)
    /\ wk' = [wk EXCEPT !.worker[w] =
                    [Called(wk.worker[w], "init", s, << >>) EXCEPT !.pc = "exists"],
                        !.begun = @ \cup {s}, !.logs = TRUE]
    /\ UNCHANGED <<pending, created, gateway_only, turn_only, ga, rc, syn>>

\* utils.py:11: os.path.exists(CALL_RECORD_FILE): the file is created when
\* there is none; with the file there, utils.py:15-16: open and the fstat
\* of json.load (the file is never removed, so the test and the open see
\* the same)
InitExists(w) ==
    /\ wk.worker[w].pc = "exists"
    /\ LET me == wk.worker[w]
       IN  wk' = [wk EXCEPT
                    !.worker[w] =
                        IF wk.exists
                        THEN [opened_for_reading(me, call_records) EXCEPT !.pc = "read"]
                        ELSE [me EXCEPT !.pc = "write", !.creating = TRUE],
                    !.overlapped = @ \/ (wk.exists /\ OtherInFlight(w))]
    /\ UNCHANGED <<pending, created, gateway_only, turn_only, ga, rc, syn>>

\* app.py:213, 221, 305, 313: a turn of a session start_call has returned
\* calls update_call_record; the user text is w,n in the n-th call of
\* thread w
UpdateBegin(w, s) ==
    /\ wk.worker[w].pc = "idle" /\ wk.worker[w].ops < MaxOps
    /\ s \in wk.inited
    /\ wk' = [wk EXCEPT !.worker[w] =
                    Called(wk.worker[w], "update", s,
                           call_text(w, wk.worker[w].ops + 1))]
    /\ UNCHANGED <<pending, created, gateway_only, turn_only, ga, rc, syn>>

\* app.py:237: end_call of a session start_call has returned calls
\* end_call_record
EndBegin(w, s) ==
    /\ wk.worker[w].pc = "idle" /\ wk.worker[w].ops < MaxOps
    /\ s \in wk.inited
    /\ wk' = [wk EXCEPT !.worker[w] = Called(wk.worker[w], "end", s, << >>)]
    /\ UNCHANGED <<pending, created, gateway_only, turn_only, ga, rc, syn>>

\* app.py:207-208, 300-301: a turn of query, or of query_stream, of a session
\* start_call has returned, whose transcript holds a number, enters the
\* phone-number path; its user text is w,n
PhoneBegin(w, s, stream) ==
    /\ wk.worker[w].pc = "idle" /\ wk.worker[w].ops < MaxOps
    /\ s \in wk.inited /\ wk.phones < MaxPhones
    /\ wk' = [wk EXCEPT !.worker[w] =
                    [Called(wk.worker[w], "phone", s,
                            call_text(w, wk.worker[w].ops + 1))
                        EXCEPT !.pc = "last_exists", !.stream = stream],
                        !.phones = @ + 1]
    /\ UNCHANGED <<pending, created, gateway_only, turn_only, ga, rc, syn>>

\* app.py:209, 302, and utils.py:63-66: get_last_user_query returns None
\* without the file; with the file there, open and the fstat of json.load
PhoneExists(w) ==
    /\ wk.worker[w].pc = "last_exists"
    /\ LET me == wk.worker[w]
           known == [me EXCEPT !.earlier = LastCompleted(wk.completed, me.session),
                               !.whole = ~wk.overlapped /\ ~OtherWriting(w)]
       IN  wk' = [wk EXCEPT
                    !.worker[w] =
                        IF wk.exists
                        THEN [opened_for_reading(known, call_records)
                                 EXCEPT !.pc = "last"]
                        ELSE [known EXCEPT !.pc = "lead", !.last = me.user]]
    /\ UNCHANGED <<pending, created, gateway_only, turn_only, ga, rc, syn>>

\* utils.py:66-71 and app.py:209, 302: one read(2) of json.load; with the
\* read that returns nothing get_last_user_query gives the user text of the
\* session's last turn in what was read, and the handler takes the
\* transcript when that is None
PhoneLast(w) ==
    /\ wk.worker[w].pc = "last"
    /\ LET me == wk.worker[w]
           got == next_read(me, call_records)
       IN  wk' = [wk EXCEPT
                    !.worker[w] =
                        IF got # << >> THEN after_read(me, got)
                        ELSE [closed(me) EXCEPT
                                 !.pc = "lead",
                                 !.last = unanswered_query(me.buf, me.session,
                                                           me.user),
                                 !.whole = me.whole /\ ~me.clobbered]]
    /\ UNCHANGED <<pending, created, gateway_only, turn_only, ga, rc, syn>>

\* app.py:210-211, 303-304: append_lead_log logs the query with the number;
\* query goes on to generate_tts (app.py:212) and generate() to
\* update_call_record (app.py:305); the exception of append_lead_log ends
\* the turn
PhoneLead(w) ==
    /\ wk.worker[w].pc = "lead"
    /\ LET me == wk.worker[w]
       IN  /\ lead_log' = append_lead_log(wk.logs, lead_log, me.session, LeadPhone,
                                          me.last)
           /\ wk' = IF lead_raises(wk.logs)
                    THEN [wk EXCEPT !.worker[w] = left(me)]
                    ELSE [wk EXCEPT !.worker[w] =
                                       [me EXCEPT !.pc = IF me.stream THEN "stat"
                                                         ELSE "tts"],
                               !.leads = Append(@,
                                   [earlier |-> me.earlier,
                                    current |-> me.user,
                                    whole |-> me.whole])]
    /\ UNCHANGED <<pending, created, gateway_only, call_records, turn, ga, rc, syn>>

\* app.py:212: query calls generate_tts(reply) and then update_call_record
\* (app.py:213); app.py:306: generate() calls generate_tts(reply) after
\* update_call_record has returned
PhoneTts(w) ==
    /\ wk.worker[w].pc = "tts"
    /\ LET after == tts_all(pending, created, <<REPLY_PHONE>>, w)
       IN  /\ pending' = after.pending
           /\ created' = after.created
    /\ wk' = [wk EXCEPT !.worker[w] = IF wk.worker[w].stream
                                       THEN left(wk.worker[w])
                                       ELSE [wk.worker[w] EXCEPT !.pc = "stat"]]
    /\ UNCHANGED <<gateway_only, turn_only, ga, rc, syn>>

\* utils.py:15, 29, 47: open(CALL_RECORD_FILE, "r"), which raises without
\* the file, and the fstat of json.load
RecordStat(w) ==
    /\ wk.worker[w].pc = "stat"
    /\ LET me == wk.worker[w]
       IN  wk' = [wk EXCEPT
                    !.worker[w] =
                        IF wk.exists
                        THEN [opened_for_reading(me, call_records) EXCEPT !.pc = "read"]
                        ELSE left(me),
                    !.overlapped = @ \/ (wk.exists /\ OtherInFlight(w))]
    /\ UNCHANGED <<pending, created, gateway_only, turn_only, ga, rc, syn>>

\* utils.py:16-23, 30-41, 48-50: one read(2) of json.load; with the read
\* that returns nothing json.load parses what it has read and the function
\* changes its copy; json.load raises on what is not JSON, update and end
\* without a record of the session
RecordRead(w) ==
    /\ wk.worker[w].pc = "read"
    /\ LET me == wk.worker[w]
           got == next_read(me, call_records)
           loaded == json_load(me.buf)
       IN  wk' = [wk EXCEPT
                    !.worker[w] =
                        IF got # << >> THEN after_read(me, got)
                        ELSE IF ~loaded.ok \/ call_raises(me, loaded.v)
                             THEN left(me)
                             ELSE [closed(me) EXCEPT
                                      !.pc = "write",
                                      !.data = written(me, loaded.v)],
                    !.overlapped = @ \/ OtherInFlight(w)]
    /\ UNCHANGED <<pending, created, gateway_only, turn_only, ga, rc, syn>>

\* utils.py:12-13, 25-26, 43-44, 52-53: open(CALL_RECORD_FILE, "w") makes
\* the file, or empties it, and json.dump hands its chunks to the file
\* object; {} stays in the buffer
RecordOpen(w) ==
    /\ wk.worker[w].pc = "write"
    /\ LET me == wk.worker[w]
           mine == opened_for_writing(me, IF me.creating
                                          THEN json_dump(Obj(<< >>, << >>))
                                          ELSE json_dump(me.data))
       IN  wk' = [wk EXCEPT
                    !.worker = [touched(w) EXCEPT
                                  ![w] = [mine EXCEPT
                                            !.pc = IF Len(mine.out) > 1 THEN "dump"
                                                   ELSE "close"]],
                    !.exists = TRUE]
    /\ call_records' = << >>
    /\ UNCHANGED <<pending, created, gateway_only, lead_log, turn, ga, rc, syn>>

\* utils.py:26, 44, 53: a write of the file object that is not its last, at
\* its offset: inside json.dump(data, f, indent=2), or the first of two the
\* close makes
RecordDump(w) ==
    /\ wk.worker[w].pc = "dump"
    /\ LET me == wk.worker[w]
       IN  /\ call_records' = write_at(call_records, me.pos, Head(me.out))
           /\ wk' = [wk EXCEPT
                        !.worker = [touched(w) EXCEPT
                                      ![w] = [after_write(me) EXCEPT
                                                !.pc = IF Len(me.out) > 2 THEN "dump"
                                                       ELSE "close"]]]
    /\ UNCHANGED <<pending, created, gateway_only, lead_log, turn, ga, rc, syn>>

\* the thread after the function it called has returned: init_call_record
\* goes on to read the file it created, the phone-number turn of
\* query_stream goes on to generate_tts
returned(me) ==
    IF me.creating THEN [closed(me) EXCEPT !.pc = "stat", !.creating = FALSE]
    ELSE IF me.op = "phone" /\ me.stream THEN [closed(me) EXCEPT !.pc = "tts"]
    ELSE left(me)

\* utils.py:12-13, 25-26, 43-44, 52-53: the last write of the file object,
\* at its offset: {} into the file just created, and init_call_record goes
\* on to read it, or the end of the changed copy, and the function returns
RecordClose(w) ==
    /\ wk.worker[w].pc = "close"
    /\ LET me == wk.worker[w]
       IN  /\ call_records' = write_at(call_records, me.pos, Head(me.out))
           /\ wk' = [wk EXCEPT
                        !.worker = [touched(w) EXCEPT ![w] = returned(me)],
                        !.inited = IF me.op = "init" /\ ~me.creating
                                   THEN @ \cup {me.session} ELSE @,
                        !.completed =
                            IF me.op \in {"update", "phone"}
                            THEN Append(@, [session |-> me.session,
                                            user |-> me.user])
                            ELSE @]
    /\ UNCHANGED <<pending, created, gateway_only, lead_log, turn, ga, rc, syn>>

-----------------------------------------------------------------------------
(***************************************************************************)
(* The specifications.                                                     *)
(***************************************************************************)

\* the state after import: empty maps, no log, no request yet
Init ==
    /\ pending = << >>
    /\ ios_cache = << >>
    /\ ios_cache_times = << >>
    /\ ios_generating = {}
    /\ now = 0
    /\ req = [r \in Requests |-> NewReq]
    /\ created = << >>
    /\ synth_calls = [t \in Tokens |-> 0]
    /\ synth_failed = {}
    /\ call_records = << >>
    /\ lead_log = << >>
    /\ turn = [q \in Threads |-> NewTurn]
    /\ ga = NewGa
    /\ rc = NewRc
    /\ syn = NewSyn
    /\ wk = NewWk

\* the gateway: generate_tts, the clock and the tts_stream requests
Next ==
    \/ \E text \in Texts : GenerateTts(text)
    \/ Tick
    \/ \E r \in Requests, t \in Tokens, ios \in BOOLEAN : Arrive(r, t, ios)
    \/ \E r \in Requests : CacheLookup(r)
    \/ \E r \in Requests : GetAndClear(r)
    \/ \E r \in Requests : CheckGenerating(r)
    \/ \E r \in Requests : WaitPoll(r)
    \/ \E r \in Requests : MarkGenerating(r)
    \/ \E r \in Requests : SynthStart(r)
    \/ \E r \in Requests : SynthStartRaise(r)
    \/ \E r \in Requests : SynthReturn(r)
    \/ \E r \in Requests : SynthRaise(r)
    \/ \E r \in Requests : ClearGenerating(r)
    \/ \E r \in Requests : SetCachedDiscard(r)
    \/ \E r \in Requests : SetCachedStore(r)
    \/ \E r \in Requests : BufferedReply(r)
    \/ \E r \in Requests : StreamChunks(r)
    \/ \E r \in Requests : StreamResume(r)
    \/ \E r \in Requests : StreamResumeRaise(r)
    \/ \E r \in Requests : StreamNext(r)
    \/ \E r \in Requests : StreamEnd(r)

Spec == Init /\ [][Next]_vars

\* a step of the server inside tts_stream: the thread of a request that has
\* arrived runs on until it returns (the synthesis ends by its deadline)
FetchStep ==
    \E r \in Requests :
        \/ CacheLookup(r) \/ GetAndClear(r) \/ CheckGenerating(r) \/ WaitPoll(r)
        \/ MarkGenerating(r) \/ SynthStart(r) \/ SynthStartRaise(r)
        \/ SynthReturn(r) \/ SynthRaise(r)
        \/ ClearGenerating(r) \/ SetCachedDiscard(r) \/ SetCachedStore(r)
        \/ BufferedReply(r)
        \/ StreamChunks(r) \/ StreamResume(r) \/ StreamResumeRaise(r)
        \/ StreamNext(r) \/ StreamEnd(r)

\* the gateway without the clock of the cache's time-to-live, which plays no
\* part in the generating set, serving NumFetchers requests
NextFetch ==
    \/ \E text \in Texts : GenerateTts(text)
    \/ \E r \in 1..NumFetchers, t \in Tokens, ios \in BOOLEAN : Arrive(r, t, ios)
    \/ FetchStep

\* the gateway with request threads that are not starved for ever
SpecFetchFair == Init /\ [][NextFetch]_vars /\ WF_vars(FetchStep)

NextTurn ==
    \/ \E s \in 1..NumSessions : StartCall(s)
    \/ StartExists
    \/ StartStat
    \/ StartRead
    \/ StartOpen
    \/ StartDump
    \/ StartClose
    \/ StartGreet
    \/ \E q \in Turns, s \in ClientSessions, a \in BOOLEAN, text \in Transcripts :
          QueryStart(q, s, a, text)
    \/ \E q \in Turns : QueryPhone(q)
    \/ \E q \in Turns : QueryRag(q)
    \/ \E q \in Turns : QueryFinish(q)
    \/ \E q \in Turns, s \in ClientSessions, a \in BOOLEAN, text \in Transcripts :
          StreamStart(q, s, a, text)
    \/ \E q \in Turns : StreamFirst(q)
    \/ \E q \in Turns : StreamPhone(q)
    \/ \E q \in Turns : LastQuery(q)
    \/ \E q \in Turns : StreamRag(q)
    \/ \E q \in Turns : LeadLog(q)
    \/ \E q \in Turns : UpdateStat(q)
    \/ \E q \in Turns : UpdateRead(q)
    \/ \E q \in Turns : UpdateOpen(q)
    \/ \E q \in Turns : UpdateDump(q)
    \/ \E q \in Turns : UpdateClose(q)
    \/ \E q \in Turns : StreamSentence(q)
    \/ \E q \in Turns : StreamEmit(q)
    \/ \E q \in Turns : StreamDone(q)

\* the turns of the orchestrator: start_call, query and query_stream
SpecTurn == Init /\ [][NextTurn]_vars

\* a step of the server inside a turn it has begun: the handler and the
\* generator of the event stream run on until they return
TurnStep ==
    \E q \in Turns :
        \/ QueryPhone(q) \/ QueryRag(q) \/ QueryFinish(q)
        \/ StreamFirst(q) \/ StreamPhone(q) \/ StreamRag(q)
        \/ LeadLog(q) \/ UpdateStat(q) \/ UpdateDump(q)
        \/ StreamSentence(q) \/ StreamEmit(q) \/ StreamDone(q)

\* the positions of a turn inside json.load, before its open for writing and
\* before its last write
InRecordCall == {"p_read", "u_read", "u_open", "u_close"}

\* LastQuery(q), UpdateRead(q), UpdateOpen(q) and UpdateClose(q) are enabled
\* exactly when turn q is at their position; a read that returns bytes stays
\* there, and the file has an end, so the weak fairness of each is the
\* statement that turn q is away from its position again and again
UpdateReturns == \A q \in Turns : \A p \in InRecordCall : []<>(turn[q].pc # p)

\* the streaming turns of NumFairSessions sessions
NextStream ==
    \/ \E s \in 1..NumFairSessions : StartCall(s)
    \/ StartExists
    \/ StartStat
    \/ StartRead
    \/ StartOpen
    \/ StartDump
    \/ StartClose
    \/ StartGreet
    \/ \E q \in Turns, s \in ClientSessions, a \in BOOLEAN, text \in Transcripts :
          StreamStart(q, s, a, text)
    \/ \E q \in Turns : StreamFirst(q)
    \/ \E q \in Turns : StreamPhone(q)
    \/ \E q \in Turns : LastQuery(q)
    \/ \E q \in Turns : StreamRag(q)
    \/ \E q \in Turns : LeadLog(q)
    \/ \E q \in Turns : UpdateStat(q)
    \/ \E q \in Turns : UpdateRead(q)
    \/ \E q \in Turns : UpdateOpen(q)
    \/ \E q \in Turns : UpdateDump(q)
    \/ \E q \in Turns : UpdateClose(q)
    \/ \E q \in Turns : StreamSentence(q)
    \/ \E q \in Turns : StreamEmit(q)
    \/ \E q \in Turns : StreamDone(q)

\* the streaming turns, with handlers that are not starved for ever
SpecTurnFair == Init /\ [][NextStream]_vars /\ WF_vars(TurnStep) /\ UpdateReturns

\* one generate_answer call; rag.py:16-18 raises at import without a credential,
\* so a call always has at least one
NextGen ==
    \/ \E query \in GaQueries, keys \in 1..NumKeys, history \in Histories :
          GaCall(query, keys, history)
    \/ GaThanks
    \/ GaCompliment
    \/ GaRetrieve
    \/ GaAttemptReply
    \/ GaAttemptError
    \/ GaExhausted

SpecGen == Init /\ [][NextGen]_vars

\* the retriever: initialize_rag, then a retrieve_context call
NextRetrieve ==
    \/ /\ rc.pc = "unloaded"
       /\ \E docs \in Indexes, fit_ok \in BOOLEAN : InitializeRag(docs, fit_ok)
    \/ /\ rc.pc = "ready"
       /\ \E query \in RcQueries, sims \in SimsFor(rc.docs) :
             \E order \in RankingsFor(sims) : RetrieveContext(query, sims, order)

SpecRetrieve == Init /\ [][NextRetrieve]_vars

\* one synthesis: the engine, the clock, the two forwarding loops, the two
\* replies and the waiting duplicate fetch
NextSynth ==
    \/ EngineChunk
    \/ EngineRaise
    \/ EngineFinish
    \/ DeadlinePasses
    \/ \E c \in Consumers : ConsumerCheck(c)
    \/ \E c \in Consumers : ConsumerDrain(c)
    \/ \E c \in Consumers : ConsumerTest(c)
    \/ \E c \in Consumers : ConsumerFinal(c)
    \/ \E c \in Consumers : ConsumerSleep(c)
    \/ ChunkedRespond
    \/ BufferedStore
    \/ BufferedRespond
    \/ WaitForIosCache

SpecSynth == Init /\ [][NextSynth]_vars

\* a step of one of the server's threads
ServerStep ==
    \/ \E c \in Consumers : ConsumerCheck(c)
    \/ \E c \in Consumers : ConsumerDrain(c)
    \/ \E c \in Consumers : ConsumerTest(c)
    \/ \E c \in Consumers : ConsumerFinal(c)
    \/ \E c \in Consumers : ConsumerSleep(c)
    \/ ChunkedRespond
    \/ BufferedStore
    \/ BufferedRespond
    \/ WaitForIosCache

\* the clock advances and the server's threads keep running while one of them
\* has a step to take; nothing is assumed of the engine, which may stop at any
\* point and never finish
SynthFairness == WF_vars(DeadlinePasses) /\ WF_vars(ServerStep)

SpecSynthFair == SpecSynth /\ SynthFairness

\* the call-record store: the three functions of utils.py, a read and a write
\* each, called from concurrent request threads
NextRecords ==
    \/ \E w \in Workers, s \in RecSessions : InitBegin(w, s)
    \/ \E w \in Workers, s \in RecSessions : UpdateBegin(w, s)
    \/ \E w \in Workers, s \in RecSessions : EndBegin(w, s)
    \/ \E w \in Workers, s \in RecSessions, stream \in BOOLEAN :
          PhoneBegin(w, s, stream)
    \/ \E w \in Workers : InitExists(w)
    \/ \E w \in Workers : PhoneExists(w)
    \/ \E w \in Workers : PhoneLast(w)
    \/ \E w \in Workers : PhoneLead(w)
    \/ \E w \in Workers : PhoneTts(w)
    \/ \E w \in Workers : RecordStat(w)
    \/ \E w \in Workers : RecordRead(w)
    \/ \E w \in Workers : RecordOpen(w)
    \/ \E w \in Workers : RecordDump(w)
    \/ \E w \in Workers : RecordClose(w)

SpecRecords == Init /\ [][NextRecords]_vars

-----------------------------------------------------------------------------
(***************************************************************************)
(* Properties of the token store and the gateway, checked under Spec.      *)
(***************************************************************************)

\* the requests whose get_and_clear(t) call has returned
Callers(t) == {r \in Requests : req[r].called /\ req[r].token = t}

\* the requests whose get_and_clear(t) call returned the text
Winners(t) == {r \in Callers(t) : req[r].popped}

Done(r) == req[r].pc = "done"

\* C1: for every token generate_tts created, either it is still pending and no
\* get_and_clear call has returned its text, or it is gone from the pending map
\* and exactly one get_and_clear call returned the text it was created with;
\* every other call returned None.
C1_ConsumedExactlyOnce ==
    \A t \in CreatedTokens :
        /\ \A r \in Winners(t) : req[r].text = CreatedText(t)
        /\ IF t \in DOMAIN pending
           THEN Winners(t) = {}
           ELSE Cardinality(Winners(t)) = 1

\* C1 witness: two get_and_clear calls for one created token have returned,
\* one with the text and one with None.
C1_Witness ==
    \E t \in CreatedTokens : \E r1, r2 \in Callers(t) :
        /\ req[r1].popped /\ req[r1].text = CreatedText(t)
        /\ ~req[r2].popped /\ req[r2].text = <<>>

\* C2 (the claim, for a primary fetch that succeeds): when a buffering-client
\* fetch consumed t, synthesized and returned 200, every other
\* buffering-client fetch of t that arrived while t was pending or its
\* synthesis was still running returns 200 with the same payload, never 404.
C2_DuplicateFetchServed ==
    \A r1, r2 \in Requests :
        ( /\ r1 # r2 /\ req[r1].token = req[r2].token
          /\ req[r1].ios /\ req[r2].ios
          /\ req[r1].early /\ req[r2].early
          /\ Done(r1) /\ Done(r2)
          /\ req[r1].popped /\ req[r1].status = 200 )
        => (req[r2].status = 200 /\ req[r2].body = req[r1].body)

\* the requests whose synthesis call for t (get_full_audio_bytes, or
\* stream_tts_chunks in the generator of the chunked response) was started
SynthCallers(t) == {r \in Requests : req[r].token = t /\ req[r].synth # "none"}

\* the requests whose synthesis call for t started the engine thread
EngineStarters(t) == {r \in SynthCallers(t) : req[r].synth = "started"}

\* C3: the synthesis call of a token is started at most once, by one request,
\* and the engine thread at most once, by that call; a fetch that consumed the
\* text and has ended started the call, and nobody else did; and once every
\* request has ended, the synthesis call of a token some fetch found pending
\* has been started exactly once.
C3_SynthesisAtMostOnce ==
    /\ \A t \in Tokens :
          /\ Cardinality(SynthCallers(t)) <= 1
          /\ synth_calls[t] = Cardinality(EngineStarters(t))
          /\ SynthCallers(t) # {} => t \in CreatedTokens
    /\ \A r \in Requests :
          (Done(r) /\ req[r].popped) => SynthCallers(req[r].token) = {r}
    /\ (\A q \in Requests : req[q].pc \in {"idle", "done"})
          => \A r \in Requests :
                (Done(r) /\ req[r].saw_pending)
                => Cardinality(SynthCallers(req[r].token)) = 1

\* C3 witness: three fetches of one token, from both client classes, have
\* returned; one arrived while the token was pending.
C3_Witness ==
    \E r1, r2, r3 \in Requests :
        /\ r1 # r2 /\ r2 # r3 /\ r1 # r3
        /\ Done(r1) /\ Done(r2) /\ Done(r3)
        /\ req[r1].token = req[r2].token /\ req[r2].token = req[r3].token
        /\ req[r1].ios /\ ~req[r2].ios
        /\ req[r3].saw_pending
        /\ synth_calls[req[r1].token] = 1

\* a duplicate fetch waits for a token that is marked as generating while the
\* fetch that marked it has not yet started the engine thread
WaitingBeforeEngineStarted ==
    \E r, d \in Requests :
        /\ req[r].pc = "start" /\ req[d].pc = "wait"
        /\ req[d].token = req[r].token
        /\ synth_calls[req[r].token] = 0

\* the engine thread of a buffered fetch could not be started: the fetch
\* answered 500 and no engine thread was ever started for the token
EngineNeverStarted ==
    \E r \in Requests :
        /\ Done(r) /\ req[r].ios /\ req[r].synth = "raised"
        /\ req[r].status = 500 /\ synth_calls[req[r].token] = 0

\* the generator of a chunked response has started the engine thread and has
\* yielded nothing yet, while a buffered fetch of another token is synthesizing
ResumedWithoutChunk ==
    \E r, d \in Requests :
        /\ req[r].pc = "chunks" /\ req[r].body = <<>>
        /\ synth_calls[req[r].token] = 1
        /\ req[d].pc = "synth" /\ req[d].token # req[r].token

\* C4: once the buffered fetch of t has failed (empty payload or exception) it
\* returned 500, t is in neither the generating set, the cache nor the pending
\* map, its synthesis call was made once, by that fetch, and every fetch that
\* arrived after the failure starts no synthesis and, once it has returned,
\* returned 404 without consuming anything.
C4_FailedTokenUnrecoverable ==
    \A t \in synth_failed :
        /\ t \notin ios_generating
        /\ t \notin DOMAIN ios_cache
        /\ t \notin DOMAIN pending
        /\ Cardinality(SynthCallers(t)) = 1
        /\ \E r \in SynthCallers(t) :
              /\ Done(r) /\ req[r].ios
              /\ req[r].popped /\ req[r].status = 500
        /\ \A r \in Requests :
              (req[r].token = t /\ req[r].saw_failed)
              => /\ req[r].synth = "none"
                 /\ Done(r) => (req[r].status = 404 /\ ~req[r].popped)

\* C4 witness: a buffered fetch failed and two later fetches of the token, one
\* from each client class, returned 404.
C4_Witness ==
    \E t \in synth_failed : \E r1, r2 \in Requests :
        /\ req[r1].token = t /\ req[r2].token = t
        /\ req[r1].saw_failed /\ req[r2].saw_failed
        /\ req[r1].ios /\ ~req[r2].ios
        /\ Done(r1) /\ Done(r2)
        /\ req[r1].status = 404 /\ req[r2].status = 404

\* C5 (the claim): a buffering-client fetch that arrives when the cache entry
\* of its token is older than _ios_cache_max_age returns 404.
C5_ExpiredEntryNotServed ==
    \A r \in Requests :
        (req[r].ios /\ req[r].saw_expired /\ Done(r)) => req[r].status = 404

\* C6: every token in the cache or in the generating set was inserted into the
\* pending map by generate_tts and is no longer in it; no token was inserted
\* twice.
C6_CachedWasPending ==
    /\ \A t \in DOMAIN ios_cache \cup ios_generating :
          t \in CreatedTokens /\ t \notin DOMAIN pending
    /\ \A i, j \in 1..Len(created) : created[i].token = created[j].token => i = j
    /\ DOMAIN pending \subseteq CreatedTokens

\* C6 witness: one token is cached while another is being generated.
C6_Witness ==
    \E t1 \in DOMAIN ios_cache : \E t2 \in ios_generating : t1 # t2

-----------------------------------------------------------------------------
(***************************************************************************)
(* Properties of the turns, checked under SpecTurn.                        *)
(***************************************************************************)

HasPhone(s) == \E i \in 1..Len(s) : PhoneAt(s, i)

IsSentenceEvent(e) == e.type = "sentence"

SentenceEvents(q) == SelectSeq(turn[q].events, IsSentenceEvent)

\* a streaming turn that passed the request check, with a transcript of at
\* least 3 non-blank characters and no phone number
PlainStream(q) ==
    /\ turn[q].mode = "stream"
    /\ turn[q].pc # "idle" /\ turn[q].status = 200
    /\ ~TooShort(turn[q].user_text)
    /\ ~HasPhone(turn[q].user_text)

\* the stream of turn q is complete: transcript, one event per sentence, done
StreamComplete(q) ==
    LET ev == turn[q].events
        sents == split_sentences(turn[q].reply)
    IN  /\ Len(ev) = Len(sents) + 2
        /\ ev[1] = Event("transcript", turn[q].user_text, 0)
        /\ \A i \in 1..Len(sents) :
              ev[i + 1].type = "sentence" /\ ev[i + 1].text = sents[i]
        /\ ev[Len(ev)] = Event("done", <<>>, 0)

\* the order of the events and tokens of streaming turn q, at every point of
\* the turn: the transcript event first, then sentence events only, which are
\* the sentences of the reply in order, each carrying a token that is in the
\* pending map with that sentence as its text; the tokens the turn has created
\* are those of the sentence events emitted so far, in creation order, and
\* between generate_tts and the yield the token of the sentence that comes
\* next; the finished stream is transcript, one event per sentence, done
StreamInOrder(q) ==
    LET ev == turn[q].events
        se == SentenceEvents(q)
        sents == split_sentences(turn[q].reply)
        toks == TokensBy(created, q)
    IN  /\ turn[q].pc # "s_first" =>
              (ev # <<>> /\ ev[1] = Event("transcript", turn[q].user_text, 0))
        /\ \A i \in 2..Len(ev) :
              (i < Len(ev) \/ turn[q].pc # "done") => ev[i].type = "sentence"
        /\ Len(se) <= Len(sents)
        /\ Len(toks) = Len(se) + (IF turn[q].pc = "s_emit" THEN 1 ELSE 0)
        /\ Len(toks) <= Len(sents)
        /\ \A i \in 1..Len(toks) :
              /\ toks[i] \in DOMAIN pending
              /\ pending[toks[i]] = sents[i]
              /\ i > 1 => toks[i - 1] < toks[i]
        /\ \A i \in 1..Len(se) :
              /\ se[i].text = sents[i]
              /\ se[i].token = toks[i]
        /\ turn[q].pc = "done" => StreamComplete(q)

\* C7 (the claim): a streaming turn whose transcript has at least 3 non-blank
\* characters and no phone number emits one transcript event, then one sentence
\* event per sentence of the reply in reply order, then one done event, each
\* sentence's token being in the pending map before its event is emitted and
\* before the next sentence's token is created.
C7_StreamOrder ==
    \A q \in Turns : PlainStream(q) => StreamInOrder(q)

\* the stream of turn q was ended by the except branch of generate()
EndedByServerError(q) ==
    /\ turn[q].pc = "done" /\ turn[q].events # <<>>
    /\ turn[q].events[Len(turn[q].events)] = Event("error", ERR_SERVER, 0)

\* The order C7 states does hold for every stream that update_call_record did
\* not end with an exception.
StreamOrderUnlessServerError ==
    \A q \in Turns :
        (PlainStream(q) /\ ~EndedByServerError(q)) => StreamInOrder(q)

\* update_call_record raises only without a records file it can load and
\* that holds the session: the step that ends a plain stream by the server
\* error is the open of a file that is not there, or the last read of a
\* json.load that has read no JSON, or no record of the session
ServerErrorOnlyWithoutRecord ==
    [][\A q \in Turns :
          (PlainStream(q) /\ ~EndedByServerError(q) /\ EndedByServerError(q)')
              => \/ turn[q].pc = "u_stat" /\ ~wk.exists
                 \/ /\ turn[q].pc = "u_read"
                    /\ turn[q].session \notin DOMAIN records_in(turn[q].buf)]_vars

\* a streaming turn of a started session has finished a reply of three sentences
StartedSessionStreamed ==
    \E q \in Turns :
        /\ PlainStream(q) /\ turn[q].session \in wk.inited
        /\ turn[q].pc = "done"
        /\ Len(split_sentences(turn[q].reply)) = 3
        /\ Len(turn[q].events) = 5

\* C8: a query turn creates at most one token, and one that returned a reply
\* created exactly one, whose text is the whole reply and which is the one its
\* audio_url names; on the phone-number path the reply is the fixed
\* admissions-contact text.
C8_QueryOneToken ==
    \A q \in Turns :
        /\ turn[q].mode = "query" => Len(TokensBy(created, q)) <= 1
        /\ (turn[q].mode = "query" /\ turn[q].pc = "done"
            /\ turn[q].status = 200 /\ turn[q].error = <<>>) =>
              LET toks == TokensBy(created, q)
              IN  /\ Len(toks) = 1
                  /\ turn[q].response = turn[q].reply
                  /\ turn[q].response # <<>>
                  /\ CreatedText(toks[1]) = turn[q].response
                  /\ toks[1] \in DOMAIN pending /\ pending[toks[1]] = turn[q].response
                  /\ turn[q].audio_token = toks[1]
                  /\ HasPhone(turn[q].user_text) => turn[q].response = REPLY_PHONE

\* C8 witness: two query turns returned a reply, one on the phone-number path
\* and one on the generated-answer path with a reply of several sentences.
C8_Witness ==
    \E q1, q2 \in Turns :
        /\ turn[q1].mode = "query" /\ turn[q2].mode = "query"
        /\ turn[q1].pc = "done" /\ turn[q2].pc = "done"
        /\ turn[q1].status = 200 /\ turn[q2].status = 200
        /\ turn[q1].phone # <<>> /\ turn[q1].response = REPLY_PHONE
        /\ turn[q2].ga_calls = 1
        /\ Len(split_sentences(turn[q2].response)) > 1

\* the turn's transcript was accepted and holds a phone number
PhoneTurn(q) ==
    /\ turn[q].pc # "idle" /\ turn[q].status # 400
    /\ ~TooShort(turn[q].user_text)
    /\ HasPhone(turn[q].user_text)

\* the steps of the phone-number path of turn q: the query read for the lead
\* is the user text of the session's last turn in what json.load has read,
\* the current transcript when there is no file, no JSON or no turn; the
\* lead logged pairs it with the first number matched; the record written
\* has the turn with the fixed reply, the escalated flag and the number,
\* when no other thread emptied or wrote the file under it between its open
\* and its close
PhoneStepRight(q) ==
    LET s == turn[q].session
        u == turn[q].user_text
        number == detect_phone_number(u)
        read == records_in(turn[q].buf)
        previous == IF s \in DOMAIN read /\ read[s].turns # <<>>
                    THEN read[s].turns[Len(read[s].turns)].user
                    ELSE u
        after == records_in(call_records')
    IN  /\ (turn[q].pc \in {"q_phone", "s_phone"} /\ turn'[q].pc # turn[q].pc) =>
              IF wk.exists THEN turn'[q].pc = "p_read"
              ELSE turn'[q].pc = "lead" /\ turn'[q].last = u
        /\ (turn[q].pc = "p_read" /\ turn'[q].pc # "p_read") =>
              (turn'[q].pc = "lead" /\ turn'[q].last = previous)
        /\ (turn[q].pc = "lead" /\ turn'[q].pc # "lead") =>
              /\ turn'[q].ga_calls = 0
              /\ IF wk.logs
                 THEN /\ lead_log' = Append(lead_log, [session |-> s, phone |-> number,
                                                       query |-> turn[q].last])
                      /\ turn'[q].reply = REPLY_PHONE
                 ELSE lead_log' = lead_log /\ turn'[q].pc = "done"
        /\ (PhoneTurn(q) /\ turn[q].pc = "u_close" /\ turn'[q].pc # "u_close"
                /\ ~turn[q].clobbered) =>
              /\ s \in DOMAIN after
              /\ after[s].escalated
              /\ after[s].phone = number
              /\ after[s].turns # <<>>
              /\ after[s].turns[Len(after[s].turns)] =
                    [user |-> u, agent |-> REPLY_PHONE]

\* the turn was ended by the except branch of its handler
EndedByException(q) ==
    /\ turn[q].pc = "done"
    /\ \/ turn[q].mode = "query" /\ turn[q].status = 500
       \/ turn[q].mode = "stream" /\ EndedByServerError(q)

\* the fixed reply was delivered: the JSON of query with the token of the
\* whole text, or the events transcript, sentence, done
FixedReplyGiven(q) ==
    /\ turn[q].reply = REPLY_PHONE
    /\ turn[q].mode = "query" =>
          (turn[q].status = 200 /\ turn[q].response = REPLY_PHONE)
    /\ turn[q].mode = "stream" =>
          /\ Len(turn[q].events) = 3
          /\ turn[q].events[2].type = "sentence"
          /\ turn[q].events[2].text = REPLY_PHONE
          /\ turn[q].events[3] = Event("done", <<>>, 0)

\* The phone-number path does what C9 states in every turn no exception ended:
\* generate_answer is never invoked, one lead is logged with the first number
\* matched and the user text of the session's last turn (the current
\* transcript if there is none), the turn is appended with the fixed reply,
\* the escalated flag and the number, and the fixed reply is given.
PhoneInterruptUnlessException ==
    /\ [](\A q \in Turns :
            PhoneTurn(q) =>
               /\ turn[q].ga_calls = 0
               /\ turn[q].pc \notin {"q_rag", "s_rag"}
               /\ (turn[q].pc = "done" /\ ~EndedByException(q)) =>
                     /\ FixedReplyGiven(q)
                     /\ \E i \in 1..Len(lead_log) :
                           /\ lead_log[i].session = turn[q].session
                           /\ lead_log[i].phone = detect_phone_number(turn[q].user_text)
                           /\ lead_log[i].query = turn[q].last)
    /\ [][\A q \in Turns : PhoneStepRight(q)]_vars

\* a phone-number turn of a session with an earlier turn has finished; the lead
\* pairs the number with the earlier turn's question
StartedSessionGavePhone ==
    \E q \in Turns :
        /\ PhoneTurn(q) /\ turn[q].pc = "done"
        /\ LET cr == stored
           IN  /\ turn[q].session \in DOMAIN cr
               /\ cr[turn[q].session].escalated
               /\ Len(cr[turn[q].session].turns) = 2
               /\ \E i \in 1..Len(lead_log) :
                     /\ lead_log[i].session = turn[q].session
                     /\ lead_log[i].phone = turn[q].phone
                     /\ lead_log[i].query = cr[turn[q].session].turns[1].user
                     /\ lead_log[i].query # turn[q].user_text

\* start_call answered 500: its json.load met a records file another request
\* was writing
StartCallFailed ==
    /\ turn[Starter].pc = "done" /\ turn[Starter].status = 500
    /\ turn[Starter].error = ERR_START
    /\ turn[Starter].session \notin wk.inited

\* in a directory without logs/ a query with a phone number ended with the 500
\* of the except branch: no lead, no token
FreshDirectoryPhoneQuery ==
    \E q \in Turns :
        /\ PhoneTurn(q) /\ turn[q].mode = "query" /\ turn[q].pc = "done"
        /\ turn[q].status = 500 /\ ~wk.logs
        /\ lead_log = <<>> /\ created = <<>>

\* two query turns of one session returned their replies; the token of the
\* first was created before the token of the second and the turn of the
\* second was recorded before the turn of the first
RecordedAgainstTokenOrder ==
    \E q1, q2 \in Turns :
        /\ q1 # q2 /\ turn[q1].session = turn[q2].session
        /\ turn[q1].mode = "query" /\ turn[q2].mode = "query"
        /\ turn[q1].pc = "done" /\ turn[q2].pc = "done"
        /\ turn[q1].status = 200 /\ turn[q2].status = 200
        /\ turn[q1].error = <<>> /\ turn[q2].error = <<>>
        /\ turn[q1].user_text # turn[q2].user_text
        /\ turn[q1].audio_token < turn[q2].audio_token
        /\ LET cr == stored
           IN  /\ turn[q1].session \in DOMAIN cr
               /\ Len(cr[turn[q1].session].turns) = 2
               /\ cr[turn[q1].session].turns[1].user = turn[q2].user_text
               /\ cr[turn[q1].session].turns[2].user = turn[q1].user_text

\* two query turns of one session returned their replies and the file holds
\* the turn of one of them only
ReturnedTurnNotRecorded ==
    \E q1, q2 \in Turns :
        /\ q1 # q2 /\ turn[q1].session = turn[q2].session
        /\ turn[q1].mode = "query" /\ turn[q2].mode = "query"
        /\ turn[q1].pc = "done" /\ turn[q2].pc = "done"
        /\ turn[q1].status = 200 /\ turn[q2].status = 200
        /\ turn[q1].error = <<>> /\ turn[q2].error = <<>>
        /\ LET cr == stored
           IN  /\ turn[q1].session \in DOMAIN cr
               /\ Len(cr[turn[q1].session].turns) = 1

\* C9 (the claim): in both turn modes, a finished turn whose transcript holds a
\* phone number (03 and 9 digits) never invoked generate_answer; a lead was
\* logged with that number and the user text of an earlier turn of the session
\* or the current transcript; the reply is the fixed admissions-contact text;
\* and the session's escalated flag is set with the phone recorded.
C9_PhoneInterrupt ==
    \A q \in Turns :
        (PhoneTurn(q) /\ turn[q].pc = "done") =>
            LET s == turn[q].session
                number == detect_phone_number(turn[q].user_text)
                cr == stored
            IN  /\ turn[q].ga_calls = 0
                /\ \E i \in 1..Len(lead_log) :
                      /\ lead_log[i].session = s
                      /\ lead_log[i].phone = number
                /\ turn[q].reply = REPLY_PHONE
                /\ s \in DOMAIN cr
                /\ cr[s].escalated
                /\ cr[s].phone = number

-----------------------------------------------------------------------------
(***************************************************************************)
(* Properties of generate_answer, checked under SpecGen.                   *)
(***************************************************************************)

\* an attempt whose completion carries a reply that is not blank
GaveReply(a) == a.outcome.kind = "content" /\ Strip(a.outcome.text) # << >>

\* the call went past the fast paths and the context check, into the ladder
ReachedLadder == ga.retrieved = 1 /\ Strip(ga.context) # << >>

\* C10: generate_answer never raises, whatever the attempts of the ladder
\* produce (a reply, an empty or blank reply, no content, a rate-limit error, an
\* authorization error, another error) and however many credentials are
\* configured: a call that has returned has returned a non-empty reply text and
\* an escalated flag, one of the results the turns expect; and when the ladder
\* was entered and no attempt gave a non-blank reply, the result is the fixed
\* technical-difficulties reply with escalated = TRUE.
C10_NeverRaises ==
    /\ ~ga.raised
    /\ ga.pc = "ladder" => (ga.key_idx <= ga.keys /\ ga.model_idx \in 1..Len(MODELS))
    /\ ga.pc = "returned" =>
          /\ ga.reply # << >> /\ Strip(ga.reply) = ga.reply
          /\ ga.escalated \in BOOLEAN
          /\ <<ga.reply, ga.escalated>> \in GenerateAnswerResults
          /\ (ReachedLadder /\ \A i \in 1..Len(ga.attempts) : ~GaveReply(ga.attempts[i]))
                => (ga.reply = REPLY_TECHNICAL /\ ga.escalated = TRUE)

\* C10 witness: with every credential configured, the call returned the
\* technical-difficulties reply after attempting every model of every
\* credential, attempts that raised and attempts that gave a blank reply.
C10_Witness ==
    /\ ga.pc = "returned" /\ ga.keys = NumKeys
    /\ ga.reply = REPLY_TECHNICAL /\ ga.escalated
    /\ Len(ga.attempts) = NumKeys * Len(MODELS)
    /\ \E i \in 1..Len(ga.attempts) : ga.attempts[i].outcome.kind = "error"
    /\ \E i \in 1..Len(ga.attempts) :
          /\ ga.attempts[i].outcome.kind = "content"
          /\ ga.attempts[i].outcome.text # << >>

\* the position of a model in MODELS
ModelIndex(name) == CHOOSE k \in 1..Len(MODELS) : MODELS[k] = name

\* the ladder position <<credential, model>> of attempt i of the call
PosOf(i) == <<ga.attempts[i].key[1], ModelIndex(ga.attempts[i].model)>>

\* the ladder position that follows attempt i: the one of attempt i + 1, or the
\* one the loops stand at after the last attempt
PosAfter(i) ==
    IF i < Len(ga.attempts) THEN PosOf(i + 1) ELSE <<ga.key_idx, ga.model_idx>>

\* ladder order on positions
Before(p, r) == p[1] < r[1] \/ (p[1] = r[1] /\ p[2] < r[2])

\* the next model under the same credential, the next credential after the last
NextModelPos(p) == IF p[2] < Len(MODELS) THEN <<p[1], p[2] + 1>> ELSE <<p[1] + 1, 1>>

NextKeyPos(p) == <<p[1] + 1, 1>>

\* the ladder as C11 states it, with abandons(text) telling which errors make
\* the call abandon the credential
LadderFollows(abandons(_)) ==
    /\ ga.attempts # << >> => PosOf(1) = <<0, 1>>
    /\ \A i \in 1..Len(ga.attempts) :
          LET o == ga.attempts[i].outcome
          IN  /\ PosOf(i)[1] < ga.keys
              /\ \A j \in 1..Len(ga.attempts) : i < j => Before(PosOf(i), PosOf(j))
              /\ GaveReply(ga.attempts[i]) =>
                    (i = Len(ga.attempts) /\ ga.pc = "returned")
              /\ ~GaveReply(ga.attempts[i]) =>
                    PosAfter(i) = IF o.kind = "error" /\ abandons(o.text)
                                  THEN NextKeyPos(PosOf(i))
                                  ELSE NextModelPos(PosOf(i))

\* the error is a rate-limit or an authorization error
IsCredentialError(text) == text \in RateLimitErrors \cup AuthErrors

\* the error text holds one of the marks of rag.py:466, 469
HasCredentialMark(text) == is_rate_limit(text) \/ is_auth_error(text)

\* C11 (the claim): in the ladder of generate_answer the first attempt is the
\* first model of the first credential; after a rate-limit or authorization
\* error the next attempt is the first model of the next credential; after any
\* other error and after an empty reply it is the next model of the same
\* credential (the next credential after the last model); every (credential,
\* model) pair is attempted at most once, in ladder order; and no attempt
\* follows the first non-empty reply.
C11_LadderOrder == LadderFollows(IsCredentialError)

\* The ladder does follow that order when "a rate-limit or authorization error"
\* is read as "an error whose text holds 429, rate, quota, 401, invalid or
\* unauthorized".
LadderOrderByMarks == LadderFollows(HasCredentialMark)

\* another error was taken for a credential error: the call left the first
\* credential with its second model never attempted, and has returned
OtherErrorAbandonedCredential ==
    /\ ga.pc = "returned" /\ ga.keys = NumKeys
    /\ Len(ga.attempts) >= 2
    /\ ga.attempts[1].outcome.kind = "error"
    /\ ga.attempts[1].outcome.text \in OtherErrors
    /\ PosOf(2) = <<1, 1>>

\* every attempt of the call raised a rate-limit error
AllRateLimited ==
    \A i \in 1..Len(ga.attempts) :
        /\ ga.attempts[i].outcome.kind = "error"
        /\ ga.attempts[i].outcome.text \in RateLimitErrors

\* the call went through the ladder and has returned
LadderReturned == ga.pc = "returned" /\ ReachedLadder

\* C12 (amended): when every attempt meets a rate-limit error, generate_answer
\* returns the fixed technical-difficulties reply with escalated = TRUE having
\* attempted the first model of every configured credential exactly once, in
\* credential order, and no other credential x model combination.
C12_AllRateLimited ==
    (LadderReturned /\ AllRateLimited) =>
        /\ ga.reply = REPLY_TECHNICAL /\ ga.escalated = TRUE
        /\ Len(ga.attempts) = ga.keys
        /\ \A i \in 1..Len(ga.attempts) : PosOf(i) = <<i - 1, 1>>

\* C12 witness: with every credential configured, each of them raised a
\* rate-limit error and the call returned the technical-difficulties reply.
C12_Witness ==
    /\ LadderReturned /\ AllRateLimited
    /\ ga.keys = NumKeys
    /\ Len(ga.attempts) = NumKeys
    /\ ga.reply = REPLY_TECHNICAL

\* C12 as stated: when every attempt meets a rate-limit error, the call returns
\* the technical-difficulties reply with escalated = TRUE having attempted every
\* credential x model combination exactly once.
C12_Original ==
    (LadderReturned /\ AllRateLimited) =>
        /\ ga.reply = REPLY_TECHNICAL /\ ga.escalated = TRUE
        /\ \A k \in 0..(ga.keys - 1), m \in 1..Len(MODELS) :
              Cardinality({i \in 1..Len(ga.attempts) : PosOf(i) = <<k, m>>}) = 1

\* the calls whose query is a thanks phrase
ThanksQueries ==
    {<<"T","h","a","n","k","s"," ","a"," ","l","o","t">>,
     <<"t","h","x">>}

\* C13: a generate_answer call whose query is a thanks phrase ("thanks a lot")
\* never calls retrieve_context and makes no attempt on the ladder, and what it
\* returns is ("You're welcome.", False), whatever the conversation history.
C13_ThanksFastPath ==
    (ga.pc # "idle" /\ ga.raw \in ThanksQueries) =>
        /\ ga.retrieved = 0
        /\ ga.attempts = << >>
        /\ ga.pc \in {"fast", "returned"}
        /\ ga.pc = "returned" => (ga.reply = REPLY_WELCOME /\ ga.escalated = FALSE)

\* C13 witness: a call with the query "Thanks a lot" and a conversation history
\* has returned.
C13_Witness ==
    /\ ga.pc = "returned"
    /\ ga.raw = <<"T","h","a","n","k","s"," ","a"," ","l","o","t">>
    /\ ga.history # << >>
    /\ ga.reply = REPLY_WELCOME

-----------------------------------------------------------------------------
(***************************************************************************)
(* Properties of retrieve_context, checked under SpecRetrieve.             *)
(***************************************************************************)

\* an index exists: at least one chunk is loaded and the vectorizer is fitted
IndexExists == rc.docs # << >> /\ rc.fitted

\* the files named by the rules of KEYWORD_FILE_MAP that match the query
ForcedNames(query) ==
    UNION {Range(KEYWORD_FILE_MAP[k][2]) :
             k \in {r \in 1..Len(KEYWORD_FILE_MAP) :
                       \E kw \in KEYWORD_FILE_MAP[r][1] : Contains(Lower(query), kw)}}

\* no chunk of the index scores above the similarity threshold
NoneAboveThreshold == \A i \in 1..Len(rc.sims) : rc.sims[i] <= sim_threshold

\* the chunks of the index that come from the files of `names`, in index order
ChunksOf(names) == SelectSeq([i \in 1..Len(rc.docs) |-> Part(rc.docs, i)],
                             LAMBDA part : part.name \in names)

\* C14 (the claim): whenever an index exists, the context retrieve_context
\* returns is not empty.
C14_NeverEmpty ==
    (rc.pc = "retrieved" /\ IndexExists) => rc.context # << >>

\* The context is never empty when a chunk scores above the threshold or a
\* chunk of a file named by a matching rule is in the index.
NonEmptyWhenSomethingMatches ==
    (rc.pc = "retrieved" /\ IndexExists
        /\ (~NoneAboveThreshold \/ ChunksOf(ForcedNames(rc.query)) # << >>))
    => rc.context # << >>

\* no rule matched a query, no chunk scored above the threshold, and the
\* context of an existing index is empty
EmptyWithoutRule ==
    /\ rc.pc = "retrieved" /\ IndexExists
    /\ ForcedNames(rc.query) = {}
    /\ NoneAboveThreshold
    /\ rc.context = << >>

\* C15 (the claim): for a query that matches at least one forced-keyword rule
\* and whose similarity is at or below the threshold on every chunk, the
\* context of an existing index is not empty and is made of chunks of the
\* forced documents alone.
C15_ForcedAlone ==
    (rc.pc = "retrieved" /\ IndexExists
        /\ ForcedNames(rc.query) # {}
        /\ NoneAboveThreshold)
    => /\ rc.context # << >>
       /\ \A i \in 1..Len(rc.context) : rc.context[i].name \in ForcedNames(rc.query)

\* a rule matched the query, no chunk scored above the threshold, no chunk of
\* the index comes from a document the matching rules name, and the context
\* of the existing index is empty
EmptyWithRule ==
    /\ rc.pc = "retrieved" /\ IndexExists
    /\ ForcedNames(rc.query) # {}
    /\ NoneAboveThreshold
    /\ ChunksOf(ForcedNames(rc.query)) = << >>
    /\ rc.context = << >>

\* with a chunk of a forced document in the index the same query gets a
\* context that is not empty and holds chunks of the forced documents only
ForcedAloneWhenLoaded ==
    (rc.pc = "retrieved" /\ IndexExists
        /\ ForcedNames(rc.query) # {}
        /\ NoneAboveThreshold
        /\ ChunksOf(ForcedNames(rc.query)) # << >>)
    => /\ rc.context # << >>
       /\ \A i \in 1..Len(rc.context) : rc.context[i].name \in ForcedNames(rc.query)

\* "bus timing" matched the transport rule; the index holds a chunk of the
\* transport document and a chunk of another document, scoring at the
\* threshold, and the context is the transport chunk.
ForcedChunkAlone ==
    /\ rc.pc = "retrieved" /\ IndexExists
    /\ rc.query = <<"b","u","s"," ","t","i","m","i","n","g">>
    /\ NoneAboveThreshold
    /\ \E i, j \in 1..Len(rc.docs) :
          /\ rc.docs[i].name = "TRANSPORT_HOSTEL_FAQS.txt"
          /\ rc.docs[j].name = "CAMPUS_LIFE.txt"
          /\ rc.sims[j] = sim_threshold
    /\ Len(rc.context) = 1
    /\ rc.context[1].name = "TRANSPORT_HOSTEL_FAQS.txt"
    /\ rc.context[1].len = Len("[TRANSPORT_HOSTEL_FAQS.txt]") + 1 + rc.docs[rc.context[1].doc].len

-----------------------------------------------------------------------------
(***************************************************************************)
(* Properties of one synthesis, checked under SpecSynth and SpecSynthFair. *)
(***************************************************************************)

\* the three fetches have their reply
AllResponded ==
    /\ syn.stream.pc = "responded"
    /\ syn.buffer.pc = "responded"
    /\ syn.wait.pc = "responded"

\* the forwarding loop of c has ended
Ended(c) == syn[c].pc \in {"ended", "stored", "responded"}

\* the bytes of a sequence of chunks, joined
RECURSIVE concat(_)
concat(chunks) ==
    IF chunks = << >> THEN << >> ELSE Head(chunks) \o concat(Tail(chunks))

\* both forwarding loops have ended
BothEnded == \A c \in Consumers : Ended(c)

\* the forwarding loop of c ended because it saw the synthesis done
SawDone(c) == Ended(c) /\ syn[c].broke

\* the forwarding loop of c ended because its deadline had passed
CutByDeadline(c) == Ended(c) /\ ~syn[c].broke

\* C16 (the claim): for one behaviour of the engine, the chunks
\* stream_tts_chunks yielded, joined, are the payload get_full_audio_bytes
\* returned, once both calls have ended.
C16_BufferedIsDrainedStream == BothEnded => concat(syn.stream.out) = syn.buf

\* two calls that both saw the engine finish before their deadline forwarded
\* the same bytes: the chunks of the engine, in their order
DrainedStreamWhenBothSawDone ==
    (SawDone("stream") /\ SawDone("buffer"))
        => /\ concat(syn.stream.out) = syn.buf
           /\ syn.stream.out = syn.chunks

\* both calls saw the engine finish and forwarded its two chunks
BothForwardedEverything ==
    /\ SawDone("stream") /\ SawDone("buffer")
    /\ Len(syn.stream.out) = SynChunks
    /\ Len(syn.buf) = 2 * SynChunks

\* the deadline ended both calls on one engine behaviour, and the buffered
\* call returned bytes the streaming call never yielded
DeadlineCutApart ==
    /\ CutByDeadline("stream") /\ CutByDeadline("buffer")
    /\ syn.stream.out = << >>
    /\ syn.buf # << >>

\* C17: after an error of the engine, stream_tts_chunks has yielded nothing
\* and get_full_audio_bytes returns no byte.
C17_ErrorYieldsNothing ==
    \A c \in Consumers :
        (Ended(c) /\ syn.error_flag)
            => /\ syn[c].out = << >>
               /\ c = "buffer" => syn.buf = << >>

\* C18: a buffered fetch whose forwarding loop was ended by the deadline
\* answers with a failure and caches nothing.
C18_DeadlineIsFailure ==
    (syn.buffer.pc = "responded" /\ CutByDeadline("buffer"))
        => /\ syn.buffer.status # 200
           /\ syn.cached = << >>

\* the synthesis forwarded by c failed: the engine raised, or the deadline
\* ended the loop before the synthesis was done
SynthesisFailed(c) == Ended(c) /\ (syn.error_flag \/ ~syn[c].broke)

\* C19: in both modes, a fetch whose synthesis failed is not answered with a
\* success status.
C19_FailureIsHttpFailure ==
    \A c \in Consumers :
        (syn[c].pc = "responded" /\ SynthesisFailed(c)) => syn[c].status # 200

\* the time slept in the wait loop, in tenths of a second: 0.2 s a turn
SleptTenths == 2 * syn.wait.sleeps

\* C20: every fetch gets its reply whatever the engine does: the wait loop of
\* the duplicate fetch returns after at most 76 sleeps of 0.2 s, one more than
\* fit in its 15 s, a forwarding loop ends only when it has seen the synthesis
\* done or its deadline has passed, and the three fetches end up replied to.
C20_EveryFetchTerminates ==
    /\ [](syn.wait.sleeps <= 76)
    /\ [](\A c \in Consumers : Ended(c) => syn[c].broke \/ syn.expired)
    /\ <>[]AllResponded

\* the duplicate fetch gave up after its whole wait while the engine never
\* finished and the deadline ended both forwarding loops
C20_Witness ==
    /\ AllResponded
    /\ syn.wait.status = 404 /\ syn.wait.sleeps = 76
    /\ ~syn.done_flag
    /\ \A c \in Consumers : ~syn[c].broke

\* C20 as stated: the wait loop sleeps at most its budget of 15 s
C20_Original == SleptTenths <= 150

-----------------------------------------------------------------------------
(***************************************************************************)
(* More properties of the gateway, checked under Spec.                     *)
(***************************************************************************)

\* r is the buffering-client fetch that consumed the token of d and has
\* stored its audio under the token (_set_ios_cached has returned): it is
\* about to answer, or has answered 200
PrimaryOf(r, d) ==
    /\ r # d
    /\ req[r].token = req[d].token
    /\ req[r].ios /\ req[r].popped
    /\ \/ req[r].pc = "reply"
       \/ req[r].pc = "done" /\ req[r].status = 200

\* C23: a buffering-client fetch that found its token absent from pending and
\* in the generating set waits and never synthesizes: it consumed no text and
\* is only ever waiting or answered; answered, it returns either 200 with
\* exactly the bytes the primary fetch stored in the cache under the token
\* (the bytes the primary answers with, whether it has answered yet or not),
\* or 404 once its polls are spent.
C23_DuplicateWaits ==
    \A d \in Requests :
        req[d].waited =>
            /\ req[d].pc \in {"wait", "done"}
            /\ req[d].ios /\ ~req[d].popped /\ req[d].text = <<>>
            /\ req[d].synth = "none"
            /\ SynthCallers(req[d].token) \subseteq
                  {r \in Requests : r # d /\ req[r].ios /\ req[r].popped}
            /\ req[d].pc = "done" =>
                  \/ /\ req[d].status = 200
                     /\ req[d].body # <<>>
                     /\ \E r \in Requests :
                           /\ PrimaryOf(r, d)
                           /\ req[r].audio = req[d].body
                           /\ req[r].pc = "done" => req[r].body = req[d].body
                  \/ /\ req[d].status = 404
                     /\ req[d].body = <<>>
                     /\ req[d].elapsed = WaitPolls

\* a duplicate fetch polled, found nothing, polled again and returned the
\* bytes of the primary fetch, while another token's audio was cached too
C23_Witness ==
    \E d \in Requests :
        /\ req[d].waited /\ req[d].pc = "done"
        /\ req[d].status = 200 /\ req[d].elapsed > 0
        /\ \E t \in DOMAIN ios_cache : ios_cache[t] # req[d].body

\* a duplicate fetch was answered with the cached bytes before the primary
\* fetch, which has stored them and has not yet returned its response
DuplicateAnsweredFirst ==
    \E r, d \in Requests :
        /\ req[d].waited /\ req[d].pc = "done" /\ req[d].status = 200
        /\ PrimaryOf(r, d) /\ req[r].pc = "reply"
        /\ req[d].body = req[r].audio

\* a duplicate fetch gave up after its polls when the primary fetch had failed
WaiterGaveUpAfterFailure ==
    \E d \in Requests :
        /\ req[d].waited /\ req[d].pc = "done" /\ req[d].status = 404
        /\ req[d].token \in synth_failed

-----------------------------------------------------------------------------
(***************************************************************************)
(* Properties of the call-record store, checked under SpecRecords.         *)
(***************************************************************************)

\* json.load returns nothing but records: what a request thread has loaded,
\* whatever the reads it was put together from, is a dict of records as
\* init_call_record and update_call_record write them
LoadedHasShape ==
    [][/\ \A q \in Threads :
             (turn[q].pc \in {"c_read", "u_read", "p_read"} /\ turn'[q].pc # turn[q].pc
                 /\ json_load(turn[q].buf).ok) => has_shape(json_load(turn[q].buf).v)
       /\ \A w \in Workers :
             (wk.worker[w].pc \in {"read", "last"}
                 /\ wk'.worker[w].pc # wk.worker[w].pc
                 /\ json_load(wk.worker[w].buf).ok)
                => has_shape(json_load(wk.worker[w].buf).v)]_vars

\* no thread holds the records file open with writes still to make
AtRest == \A w \in Workers : wk.worker[w].pc \notin {"dump", "close"}

\* the user texts of the turns the records cr hold for session s
StoredFor(cr, s) ==
    IF s \in DOMAIN cr
    THEN [i \in 1..Len(cr[s].turns) |-> cr[s].turns[i].user]
    ELSE << >>

\* whenever the file is at rest, every session whose init returned has its
\* record, and its turn list is the turns whose update returned, in the
\* order they returned
NothingLost ==
    AtRest =>
        LET cr == stored
        IN  \A s \in RecSessions :
                /\ s \in wk.inited => s \in DOMAIN cr
                /\ StoredFor(cr, s) = CompletedFor(wk.completed, s)

\* C21: whatever the interleaving of the calls of concurrent requests, no
\* completed turn and no session record is lost, and the turns of a session
\* stay in the order completed.
C21_TurnsAppendOnly == NothingLost

\* the same when no call ever read the store while another call was between
\* its read and its return
TurnsAppendOnlyWithoutOverlap == ~wk.overlapped => NothingLost

\* two turns of one session completed one after the other and both are stored
SequentialTurnsStored ==
    /\ ~wk.overlapped /\ AtRest
    /\ \E s \in RecSessions : Len(CompletedFor(wk.completed, s)) = 2
    /\ \E s \in RecSessions : Len(StoredFor(stored, s)) = 2

\* the json.load of a thread is about to raise on a whole text followed by
\* more: it read the file to its end, another thread wrote a longer text,
\* and the next reads returned the end of that one
ReadOfTwoTexts ==
    \E w \in Workers :
        /\ wk.worker[w].pc \in {"read", "last"}
        /\ next_read(wk.worker[w], call_records) = << >>
        /\ LET b == wk.worker[w].buf
               r == scan_once(b, skip(b, 1))
           IN  r.ok /\ skip(b, r.i) <= Len(b)

\* the last write of a thread, behind the first writes of another thread that
\* emptied the file in between, is about to make a text that loads and that
\* neither of them wrote
CloseJoinsTexts ==
    \E w \in Workers : \E s \in RecSessions :
        /\ wk.worker[w].pc = "close" /\ wk.worker[w].pos > 0
        /\ wk.worker[w].clobbered
        /\ LET after == json_load(write_at(call_records, wk.worker[w].pos,
                                           Head(wk.worker[w].out)))
               mine == records_of(wk.worker[w].data)
           IN  /\ after.ok
               /\ s \in DOMAIN records_of(after.v) /\ s \in DOMAIN mine
               /\ Len(records_of(after.v)[s].turns) = 2
               /\ Len(mine[s].turns) = 2
               /\ records_of(after.v)[s].turns # mine[s].turns

\* a write behind the end of the file has left a hole of NUL bytes: the
\* text of the thread that emptied the file is shorter than the offset the
\* other had reached
FileWithHole == \E i \in 1..Len(call_records) : call_records[i] = NUL

-----------------------------------------------------------------------------
(***************************************************************************)
(* More properties of generate_answer, checked under SpecGen.              *)
(***************************************************************************)

\* queries that end the call
FarewellQueries == {<<"G","o","o","d","b","y","e">>}

\* C22: a generate_answer call whose query is a farewell never calls
\* retrieve_context, makes no attempt on the ladder and returns with
\* escalated = False.
C22_FarewellFastPath ==
    (ga.pc # "idle" /\ ga.raw \in FarewellQueries) =>
        /\ ga.retrieved = 0
        /\ ga.attempts = << >>
        /\ ga.pc = "returned" => ga.escalated = FALSE

\* queries that hold a thanks phrase and a question
MixedQueries == {<<"o","k"," ","t","h","a","n","k","s"," ","w","h","a","t"," ","i","s"," ","t","h","e"," ","f","e","e">>}

\* C27: a generate_answer call whose query holds a thanks phrase together with
\* a question is not answered with the canned acknowledgment: it returns only
\* after retrieve_context was called, and not with "You're welcome.".
C27_ThanksOnlyWhenPure ==
    (ga.pc = "returned" /\ ga.raw \in MixedQueries) =>
        /\ ga.retrieved > 0
        /\ ga.reply # REPLY_WELCOME

\* the call got a context that is empty or blank
GotBlankContext == ga.retrieved > 0 /\ Strip(ga.context) = << >>

\* C28: a generate_answer call whose retrieve_context returned an empty or
\* blank context has returned the "I don't have that information" reply with
\* escalated = True, without an attempt on the ladder.
C28_BlankContextNoLadder ==
    GotBlankContext =>
        /\ ga.pc = "returned"
        /\ ga.reply = REPLY_NO_INFO
        /\ ga.escalated = TRUE
        /\ ga.attempts = << >>

\* a call with a question got a context of blanks only and has returned
C28_Witness ==
    /\ GotBlankContext
    /\ ga.context # << >>
    /\ ga.raw \notin ThanksQueries \cup MixedQueries
    /\ ga.pc = "returned"

-----------------------------------------------------------------------------
(***************************************************************************)
(* More properties of retrieve_context, checked under SpecRetrieve.        *)
(***************************************************************************)

\* the parts of the context that come from the forced files, and the others
ForcedParts ==
    SelectSeq(rc.context, LAMBDA part : part.name \in ForcedNames(rc.query))

RankedParts ==
    SelectSeq(rc.context, LAMBDA part : part.name \notin ForcedNames(rc.query))

\* the file names of the parts, each once, in the order they first appear
FilesOf(parts) == add_files(<< >>, [i \in 1..Len(parts) |-> parts[i].name], 1)

\* the files of the matching rules, in rule order, that have a part in the
\* context
RuleOrder ==
    SelectSeq(get_forced_files_for_query(Lower(rc.query)),
              LAMBDA f : \E i \in 1..Len(rc.context) : rc.context[i].name = f)

\* C24: the injected documents stand in the context in the order of the
\* matching rules of KEYWORD_FILE_MAP, each file once.
C24_ForcedInRuleOrder ==
    rc.pc = "retrieved" => FilesOf(ForcedParts) = RuleOrder

\* the injected documents are in the order of the matching rules whenever the
\* index holds them in that order
RuleOrderWhenIndexAgrees ==
    (rc.pc = "retrieved" /\ FilesOf(ChunksOf(ForcedNames(rc.query))) = RuleOrder)
        => FilesOf(ForcedParts) = RuleOrder

\* C25: the context, tags, delimiters and truncation mark included, is never
\* longer than MAX_CONTEXT_CHARS.
C25_WithinBudget ==
    rc.pc = "retrieved" => joined_len(rc.context) <= MAX_CONTEXT_CHARS

\* the chunks of the context, delimiters left out, are within the budget
WithinBudgetWithoutDelimiters ==
    rc.pc = "retrieved" => sum_len(rc.context, 1) <= MAX_CONTEXT_CHARS

\* the chunks the ranking loop does not skip, in ranking order
Candidates ==
    SelectSeq(rc.order,
              LAMBDA idx : /\ rc.sims[idx] > sim_threshold
                           /\ rc.docs[idx].name \notin ForcedNames(rc.query))

\* the position in cands of the first chunk that takes the text past the
\* budget, 0 when none does
RECURSIVE FirstOver(_, _, _)
FirstOver(cands, i, total) ==
    IF i > Len(cands) THEN 0
    ELSE IF total + chunk_len(rc.docs[cands[i]]) > MAX_CONTEXT_CHARS THEN i
         ELSE FirstOver(cands, i + 1, total + chunk_len(rc.docs[cands[i]]))

Overflowing == FirstOver(Candidates, 1, joined_len(ForcedParts))

\* C26: the first ranked chunk that takes the text past the budget is in the
\* context, truncated, and is its last part.
C26_OverflowTruncated ==
    (rc.pc = "retrieved" /\ IndexExists /\ Overflowing # 0) =>
        /\ Len(RankedParts) = Overflowing
        /\ RankedParts[Overflowing].doc = Candidates[Overflowing]
        /\ RankedParts[Overflowing].truncated

\* the same when more than 480 characters of the budget are left: the chunk
\* is then cut to what is left less 80 characters
OverflowTruncatedWithRoom ==
    (rc.pc = "retrieved" /\ IndexExists /\ Overflowing # 0
        /\ MAX_CONTEXT_CHARS - sum_len(ForcedParts, 1)
              - Len(DELIMITER) * (Len(ForcedParts) - 1)
              - sum_len(SubSeq(RankedParts, 1, Overflowing - 1), 1)
              > TRUNCATE_RESERVE + MIN_TRUNCATED) =>
        /\ Len(RankedParts) = Overflowing
        /\ RankedParts[Overflowing].doc = Candidates[Overflowing]
        /\ RankedParts[Overflowing].truncated

\* a ranked chunk took the text past the budget and was appended truncated
TruncatedAppended ==
    /\ rc.pc = "retrieved" /\ Overflowing # 0
    /\ Len(RankedParts) = Overflowing
    /\ RankedParts[Overflowing].truncated

-----------------------------------------------------------------------------
(***************************************************************************)
(* More properties of the turns, checked under SpecTurn.                   *)
(***************************************************************************)

\* nothing, or fewer than three characters between the blanks
Unintelligible(text) == Len(Strip(text)) < 3

\* turn q was rejected or transcribed to something unintelligible
Unheard(q) == turn[q].pc # "idle" /\ Unintelligible(turn[q].user_text)

\* what an unheard turn has done: no token, no generate_answer call, and when
\* it has ended, the rejection or the could-not-hear error alone
UnheardResult(q) ==
    /\ TokensBy(created, q) = <<>>
    /\ turn[q].ga_calls = 0
    /\ turn[q].pc \in {"s_first", "done"}
    /\ turn[q].pc = "done" =>
          /\ turn[q].response = <<>> /\ turn[q].audio_token = 0
          /\ \/ /\ turn[q].status = 400 /\ turn[q].error = ERR_INVALID
                /\ turn[q].events = <<>>
             \/ /\ turn[q].mode = "query" /\ turn[q].status = 200
                /\ turn[q].error = ERR_HEAR_QUERY /\ turn[q].events = <<>>
             \/ /\ turn[q].mode = "stream" /\ turn[q].status = 200
                /\ turn[q].events = <<Event("error", ERR_HEAR_STREAM, 0)>>

\* a step of an unheard turn leaves the pending map, the call records, the
\* lead log and the files as they were
UnheardStep ==
    \A q \in Turns :
        (turn'[q] # turn[q] /\ Unintelligible(turn'[q].user_text))
            => UNCHANGED <<pending, created, call_records, lead_log, wk>>

\* C29: in both modes a turn that is rejected (no session id, no audio), or
\* whose transcript is empty or shorter than 3 characters once stripped, ends
\* with the rejection or the could-not-hear error alone: it creates no token,
\* calls generate_answer never, and none of its steps changes the pending map,
\* the call records or the lead log.
C29_UnheardTurnChangesNothing ==
    /\ [](\A q \in Turns : Unheard(q) => UnheardResult(q))
    /\ [][UnheardStep]_vars

\* a query turn and a stream turn of a started session, both with a transcript
\* of two letters, have ended while the greeting's token is pending
C29_Witness ==
    \E q1, q2 \in Turns :
        /\ turn[q1].mode = "query" /\ turn[q2].mode = "stream"
        /\ turn[q1].pc = "done" /\ turn[q2].pc = "done"
        /\ turn[q1].user_text = <<"h","i">> /\ turn[q2].user_text = <<"h","i">>
        /\ turn[q1].session \in wk.inited
        /\ turn[q2].session \in wk.inited
        /\ pending # <<>>

-----------------------------------------------------------------------------
(***************************************************************************)
(* More properties of the synthesis, checked under SpecSynth.              *)
(***************************************************************************)

\* the engine finished without an error before the deadline
CompletedInTime == syn.done_flag /\ syn.in_time /\ ~syn.error_flag

\* C30: when the engine completes without an error before the deadline, a
\* forwarding loop that has ended has yielded exactly the chunks the engine
\* produced, in the order of production, whatever the interleaving of the
\* engine thread and the loop.
C30_YieldsWhatWasProduced ==
    \A c \in Consumers :
        (CompletedInTime /\ Ended(c)) => syn[c].out = syn.chunks

\* what a forwarding loop has yielded is at every moment the first chunks of
\* the engine, in their order: none is doubled, none is out of place
YieldedIsPrefix ==
    \A c \in Consumers :
        /\ syn[c].idx = Len(syn[c].out)
        /\ Len(syn[c].out) <= Len(syn.chunks)
        /\ syn[c].out = SubSeq(syn.chunks, 1, Len(syn[c].out))

\* a loop that left through the break has yielded every chunk
BreakYieldsEverything ==
    \A c \in Consumers : SawDone(c) => syn[c].out = syn.chunks

\* the engine produced every chunk and finished in time, a loop slept through
\* the end of the synthesis and through the deadline, and ended a chunk short
LastChunkLost ==
    \E c \in Consumers :
        /\ CompletedInTime /\ CutByDeadline(c)
        /\ Len(syn.chunks) = SynChunks
        /\ Len(syn[c].out) = SynChunks - 1

-----------------------------------------------------------------------------
(***************************************************************************)
(* The generating set, checked under SpecFetchFair.                        *)
(***************************************************************************)

\* request r marked its token and has not yet dropped the mark
HoldsMark(r) == req[r].ios /\ req[r].pc \in {"start", "synth", "clear", "set_discard"}

\* every token of the generating set is held by a fetch that has not returned
MarkedByRunningFetch ==
    \A t \in ios_generating : \E r \in Requests : req[r].token = t /\ HoldsMark(r)

\* no token is generating and pending at once
NeverGeneratingAndPending == ios_generating \cap DOMAIN pending = {}

\* C31: a token put in the generating set by a buffered fetch is removed from
\* it in the end (when the audio is cached, on an empty payload, on an
\* exception); the set holds no token whose marking fetch has returned; and no
\* token is in the generating set while it is in the pending map.
C31_GeneratingMarkIsDropped ==
    /\ [](MarkedByRunningFetch /\ NeverGeneratingAndPending)
    /\ \A t \in Tokens : (t \in ios_generating) ~> (t \notin ios_generating)

\* one buffered fetch cached its audio, another failed, both have returned
\* and the generating set is empty again while a token is still pending
C31_Witness ==
    /\ ios_generating = {}
    /\ \E r1, r2 \in Requests :
          /\ req[r1].pc = "done" /\ req[r1].ios /\ req[r1].text # <<>>
          /\ req[r1].status = 200 /\ req[r1].token \in DOMAIN ios_cache
          /\ req[r2].pc = "done" /\ req[r2].ios /\ req[r2].text # <<>>
          /\ req[r2].status = 500 /\ req[r2].token \in synth_failed

-----------------------------------------------------------------------------
(***************************************************************************)
(* The event streams of query_stream, checked under SpecTurnFair.          *)
(***************************************************************************)

\* turn q was answered with an event stream
IsStream(q) == turn[q].mode = "stream" /\ turn[q].status = 200

\* the events that end a stream
Terminal(ev) == ev.type \in {"done", "error"}

\* the could-not-hear event
HearError == Event("error", ERR_HEAR_STREAM, 0)

\* at most the last event of the stream is terminal; a stream that has ended
\* has a terminal last event; the could-not-hear event stands alone
OneTerminalEvent(q) ==
    LET evs == turn[q].events
    IN  /\ \A i \in 1..Len(evs) : Terminal(evs[i]) => i = Len(evs)
        /\ turn[q].pc = "done" <=> (evs # <<>> /\ Terminal(evs[Len(evs)]))
        /\ (\E i \in 1..Len(evs) : evs[i] = HearError) => evs = <<HearError>>
        /\ (evs # <<>> /\ TooShort(turn[q].user_text)) => evs = <<HearError>>

\* nothing is emitted after a terminal event
SilentAfterTerminal ==
    \A q \in Turns :
        (turn[q].events # <<>> /\ Terminal(turn[q].events[Len(turn[q].events)]))
            => turn'[q].events = turn[q].events

\* C32: every event stream of query_stream ends with exactly one terminal
\* event, done or error, and emits nothing after it; the error event of a
\* transcript that is too short is the only event of its stream.
C32_OneTerminalEvent ==
    /\ [](\A q \in Turns : IsStream(q) => OneTerminalEvent(q))
    /\ [][SilentAfterTerminal]_vars
    /\ \A q \in Turns : IsStream(q) ~> (IsStream(q) /\ turn[q].pc = "done")

\* one stream has ended with done after its transcript and sentences, another
\* with the could-not-hear event alone
C32_Witness ==
    \E q1, q2 \in Turns :
        /\ IsStream(q1) /\ turn[q1].pc = "done"
        /\ Len(turn[q1].events) >= 3
        /\ turn[q1].events[1].type = "transcript"
        /\ turn[q1].events[Len(turn[q1].events)].type = "done"
        /\ IsStream(q2) /\ turn[q2].pc = "done"
        /\ turn[q2].events = <<HearError>>

\* a stream has ended with the server error after its transcript event
StreamEndedWithServerError ==
    \E q \in Turns :
        /\ IsStream(q) /\ turn[q].pc = "done"
        /\ turn[q].events = <<Event("transcript", turn[q].user_text, 0),
                              Event("error", ERR_SERVER, 0)>>

-----------------------------------------------------------------------------
(***************************************************************************)
(* The lead of the phone-number path, checked under SpecRecords.           *)
(***************************************************************************)

\* when the query of the i-th lead was read, an update of a turn of the
\* session had returned
HadTurn(i) == wk.leads[i].earlier # << >>

\* the i-th lead holds the utterance of the last such turn and not the
\* current one
LoggedEarlier(i) ==
    /\ lead_log[i].query = wk.leads[i].earlier
    /\ lead_log[i].query # wk.leads[i].current

\* C33: on the phone-number path the query of the lead is read before the
\* current turn is appended: whenever the session's record already holds a
\* turn, the lead holds that earlier turn's utterance and never the utterance
\* of the current turn.
C33_LeadIsEarlierTurn ==
    \A i \in 1..Len(lead_log) : HadTurn(i) => LoggedEarlier(i)

\* the same for the leads whose query was read from a file at rest that no
\* call had ever read while another was in progress, and that no other
\* thread emptied or wrote during the read
LeadIsEarlierTurnWhenFileWhole ==
    \A i \in 1..Len(lead_log) :
        (HadTurn(i) /\ wk.leads[i].whole) => LoggedEarlier(i)

\* the query of a lead was read for a session with a turn from such a file
LeadOfEarlierTurn ==
    \E i \in 1..Len(lead_log) : HadTurn(i) /\ wk.leads[i].whole

\* a lead holds the current utterance although an update of a turn of the
\* session had returned before the query of the lead was read, and the file
\* holds that turn afterwards
LeadOfCurrentTurn ==
    \E i \in 1..Len(lead_log) :
        /\ HadTurn(i) /\ lead_log[i].query = wk.leads[i].current
        /\ LET cr == stored
           IN  /\ lead_log[i].session \in DOMAIN cr
               /\ \E k \in 1..Len(cr[lead_log[i].session].turns) :
                     cr[lead_log[i].session].turns[k].user = wk.leads[i].earlier

\* the query of a lead was read when the session had no turn and the lead was
\* appended after another request's turn of the session was written: the lead
\* holds the current utterance and the record already holds a turn
LeadAppendedAfterLaterTurn ==
    \E i \in 1..Len(lead_log) : \E w \in Workers :
        /\ wk.leads[i].earlier = << >> /\ wk.leads[i].whole
        /\ lead_log[i].query = wk.leads[i].current
        /\ wk.worker[w].op = "phone" /\ wk.worker[w].pc \in {"stat", "tts"}
        /\ wk.worker[w].user = wk.leads[i].current
        /\ LET cr == stored
           IN  /\ lead_log[i].session \in DOMAIN cr
               /\ cr[lead_log[i].session].turns # << >>

====
